---- MODULE Spec2Model ----
(***************************************************************************)
(* Model of the CSV import/export engine of depots-viewer:                 *)
(*   src/unnamed/part_000   (lib/csv-utils: the tabular codec)             *)
(*   src/lib/csv-banks.ts   (bank row validator, batch parser, export)     *)
(*   src/lib/csv-positions.ts (position row validator, batch parser,       *)
(*                             export)                                     *)
(*   src/lib/db.ts, src/app/depots/page.tsx, src/app/depots/[id]/page.tsx, *)
(*   src/unnamed/part_002, src/unnamed/part_003 (the store, the depots    *)
(*                             pages and the two import preview pages)     *)
(* A text is a sequence of one-character strings.  Every function of the   *)
(* source is an operator that computes what the code computes, character   *)
(* by character; the actions apply the functions to an input document or   *)
(* to a list of records.                                                   *)
(***************************************************************************)
EXTENDS Integers, Sequences, FiniteSets, TLC

VARIABLES
    csvContent,   \* the text handed to the parsers (the uploaded file)
    input,        \* the records handed to the serializer / the exporters
    op,           \* the operation applied last
    result,       \* what that operation returned
    download,     \* the file the last export handed to downloadFile
    alerted,      \* the message of the last alert()
    db,           \* the store: the banks and positions tables of IndexedDB
    sessionStorage, \* the staged import results, one key per preview page
    page          \* the page shown, its React state and its running handler

vars == <<csvContent, input, op, result, download, alerted, db, sessionStorage, page>>

\* ------------------------------------------------------------------------
\* Characters and JavaScript string primitives
\* ------------------------------------------------------------------------
Quote == "\""
Comma == ","
Semicolon == ";"
Newline == "\n"
Space == " "

\* the characters String.prototype.trim removes (those the model can build)
WhiteSpace == {" ", "\n", "\r", "\t"}

\* undefined and null where a text is expected: one-element sequences no
\* text equals (every element of a text is a single character)
Undefined == <<"undefined">>
Null == <<"null">>

\* the truthiness of a text-or-undefined value: '' and undefined are falsy
Truthy(v) == v # Undefined /\ v # Null /\ v # <<>>

\* String.prototype.trimStart / trimEnd / trim
TrimStart(s) ==
    LET kept == {i \in 1..Len(s) : s[i] \notin WhiteSpace} IN
    IF kept = {} THEN <<>>
    ELSE SubSeq(s, CHOOSE i \in kept : \A k \in kept : i <= k, Len(s))

TrimEnd(s) ==
    LET kept == {i \in 1..Len(s) : s[i] \notin WhiteSpace} IN
    IF kept = {} THEN <<>>
    ELSE SubSeq(s, 1, CHOOSE i \in kept : \A k \in kept : i >= k)

Trim(s) == TrimEnd(TrimStart(s))

\* String.prototype.split(sep) for a one-character separator: the pieces
\* between consecutive separators, so "" gives [""]
Split(s, sep) ==
    LET at == {i \in 1..Len(s) : s[i] = sep}
        \* the position of the k-th separator; 0 and Len(s) + 1 bracket them
        pos(k) == IF k = 0 THEN 0
                  ELSE IF k > Cardinality(at) THEN Len(s) + 1
                  ELSE CHOOSE p \in at : Cardinality({q \in at : q <= p}) = k
    IN [k \in 1..(Cardinality(at) + 1) |-> SubSeq(s, pos(k - 1) + 1, pos(k) - 1)]

\* Array.prototype.join(sep) on an array of strings
RECURSIVE Join(_, _)
Join(parts, sep) ==
    IF parts = <<>> THEN <<>>
    ELSE IF Len(parts) = 1 THEN parts[1]
    ELSE parts[1] \o <<sep>> \o Join(Tail(parts), sep)

\* String.prototype.includes for one character
Includes(s, c) == \E i \in 1..Len(s) : s[i] = c

\* ------------------------------------------------------------------------
\* detectDelimiter (part_000:16-41)
\* ------------------------------------------------------------------------
\* The body of the for loop of detectDelimiter for the character at index
\* i (1-based).  skip is set by the i++ of the escaped-quote branch: the
\* next index is then passed over.
DetectStep(firstLine, s, i) ==
    IF s.skip THEN [s EXCEPT !.skip = FALSE]
    ELSE LET char == firstLine[i] IN
         IF char = Quote
         THEN IF s.insideQuotes /\ i + 1 <= Len(firstLine) /\ firstLine[i + 1] = Quote
              THEN [s EXCEPT !.skip = TRUE]
              ELSE [s EXCEPT !.insideQuotes = ~@]
         ELSE IF ~s.insideQuotes
              THEN IF char = Comma THEN [s EXCEPT !.commaCount = @ + 1]
                   ELSE IF char = Semicolon THEN [s EXCEPT !.semicolonCount = @ + 1]
                   ELSE s
              ELSE s

\* the loop over the indices lo..hi, in order (split in halves, which keeps
\* the evaluation shallow on long lines)
RECURSIVE DetectLoop(_, _, _, _)
DetectLoop(firstLine, s, lo, hi) ==
    IF lo > hi THEN s
    ELSE IF lo = hi THEN DetectStep(firstLine, s, lo)
    ELSE LET mid == (lo + hi) \div 2
             left == DetectLoop(firstLine, s, lo, mid)
         IN IF left.skip \in BOOLEAN THEN DetectLoop(firstLine, left, mid + 1, hi) ELSE left

\* a detection that takes the semicolon on a tie
detectDelimiterOnTie(csvString) ==
    LET firstLine == Split(csvString, Newline)[1] IN
    IF firstLine = <<>> THEN Comma
    ELSE LET c == DetectLoop(firstLine,
                             [commaCount |-> 0, semicolonCount |-> 0,
                              insideQuotes |-> FALSE, skip |-> FALSE],
                             1, Len(firstLine))
         IN IF c.semicolonCount >= c.commaCount THEN Semicolon ELSE Comma

detectDelimiter(csvString) ==
    LET firstLine == Split(csvString, Newline)[1] IN
    IF firstLine = <<>> THEN Comma
    ELSE LET c == DetectLoop(firstLine,
                             [commaCount |-> 0, semicolonCount |-> 0,
                              insideQuotes |-> FALSE, skip |-> FALSE],
                             1, Len(firstLine))
         IN IF c.semicolonCount > c.commaCount THEN Semicolon ELSE Comma

\* ------------------------------------------------------------------------
\* parseCSVHeader (part_000:77-101) and the tokenizer inlined in csvToArray
\* (part_000:122-147)
\* ------------------------------------------------------------------------
\* the state both tokenizer loops start in
TokenizerStart ==
    [fields |-> <<>>, currentValue |-> <<>>, insideQuotes |-> FALSE, skip |-> FALSE]

\* a header loop body without the doubled-quote escape
HeaderStepNoEscape(line, delimiter, s, j) ==
    LET char == line[j] IN
    IF char = Quote THEN [s EXCEPT !.insideQuotes = ~@]
    ELSE IF char = delimiter /\ ~s.insideQuotes
         THEN [s EXCEPT !.fields = Append(@, Trim(s.currentValue)), !.currentValue = <<>>]
         ELSE [s EXCEPT !.currentValue = Append(@, char)]

\* the body of the for loop of parseCSVHeader for the character at index j
HeaderStep(line, delimiter, s, j) ==
    IF s.skip THEN [s EXCEPT !.skip = FALSE]
    ELSE LET char == line[j] IN
         IF char = Quote
         THEN IF s.insideQuotes /\ j + 1 <= Len(line) /\ line[j + 1] = Quote
              THEN [s EXCEPT !.currentValue = Append(@, Quote), !.skip = TRUE]
              ELSE [s EXCEPT !.insideQuotes = ~@]
         ELSE IF char = delimiter /\ ~s.insideQuotes
              THEN [s EXCEPT !.fields = Append(@, Trim(s.currentValue)),
                             !.currentValue = <<>>]
              ELSE [s EXCEPT !.currentValue = Append(@, char)]

RECURSIVE HeaderLoop(_, _, _, _, _)
HeaderLoop(line, delimiter, s, lo, hi) ==
    IF lo > hi THEN s
    ELSE IF lo = hi THEN HeaderStep(line, delimiter, s, lo)
    ELSE LET mid == (lo + hi) \div 2
             left == HeaderLoop(line, delimiter, s, lo, mid)
         IN IF left.skip \in BOOLEAN THEN HeaderLoop(line, delimiter, left, mid + 1, hi)
            ELSE left

parseCSVHeader(line, delimiter) ==
    LET s == HeaderLoop(line, delimiter, TokenizerStart, 1, Len(line)) IN
    Append(s.fields, Trim(s.currentValue))

\* a tokenizer in which every quote toggles: no doubled-quote escape
ValuesStepToggleOnly(line, delimiter, s, j) ==
    LET char == line[j] IN
    IF char = Quote THEN [s EXCEPT !.insideQuotes = ~@]
    ELSE IF char = delimiter /\ ~s.insideQuotes
         THEN [s EXCEPT !.fields = Append(@, Trim(s.currentValue)), !.currentValue = <<>>]
         ELSE [s EXCEPT !.currentValue = Append(@, char)]

\* the body of the inner for loop of csvToArray for the character at index j
ValuesStep(line, delimiter, s, j) ==
    IF s.skip THEN [s EXCEPT !.skip = FALSE]
    ELSE LET char == line[j] IN
         IF char = Quote
         THEN IF s.insideQuotes /\ j + 1 <= Len(line) /\ line[j + 1] = Quote
              THEN [s EXCEPT !.currentValue = Append(@, Quote), !.skip = TRUE]
              ELSE [s EXCEPT !.insideQuotes = ~@]
         ELSE IF char = delimiter /\ ~s.insideQuotes
              THEN [s EXCEPT !.fields = Append(@, Trim(s.currentValue)),
                             !.currentValue = <<>>]
              ELSE [s EXCEPT !.currentValue = Append(@, char)]

RECURSIVE ValuesLoop(_, _, _, _, _)
ValuesLoop(line, delimiter, s, lo, hi) ==
    IF lo > hi THEN s
    ELSE IF lo = hi THEN ValuesStep(line, delimiter, s, lo)
    ELSE LET mid == (lo + hi) \div 2
             left == ValuesLoop(line, delimiter, s, lo, mid)
         IN IF left.skip \in BOOLEAN THEN ValuesLoop(line, delimiter, left, mid + 1, hi)
            ELSE left

\* the values array csvToArray builds for one data line
TokenizeLine(line, delimiter) ==
    LET s == ValuesLoop(line, delimiter, TokenizerStart, 1, Len(line)) IN
    Append(s.fields, Trim(s.currentValue))

\* ------------------------------------------------------------------------
\* csvToArray (part_000:107-158)
\* ------------------------------------------------------------------------
\* A RawRow is a function from column names to texts; {} is the function
\* with the empty domain.
EmptyObject == <<>>

\* obj[key] = value
SetProp(obj, key, value) ==
    [k \in (DOMAIN obj) \cup {key} |-> IF k = key THEN value ELSE obj[k]]

\* obj.key, undefined when the object has no such property
GetProp(obj, key) == IF key \in DOMAIN obj THEN obj[key] ELSE Undefined

\* a zip without the || '': a missing trailing value stays undefined
RECURSIVE ZipRowNoDefault(_, _, _, _)
ZipRowNoDefault(headers, values, index, obj) ==
    IF index > Len(headers) THEN obj
    ELSE ZipRowNoDefault(headers, values, index + 1,
                         SetProp(obj, headers[index],
                                 IF index <= Len(values) THEN values[index] ELSE Undefined))

\* headers.forEach((header, index) => { obj[header] = values[index] || '' })
RECURSIVE ZipRow(_, _, _, _)
ZipRow(headers, values, index, obj) ==
    IF index > Len(headers) THEN obj
    ELSE ZipRow(headers, values, index + 1,
                SetProp(obj, headers[index],
                        IF index <= Len(values) /\ values[index] # <<>>
                        THEN values[index] ELSE <<>>))

\* a csvToArray that forgets to trim the document
DocumentLinesUntrimmed(csvString) == Split(csvString, Newline)

\* the lines csvToArray looks at: the trimmed document split at line breaks
DocumentLines(csvString) == Split(Trim(csvString), Newline)

\* the for loop over lines[1..]: blank lines are skipped
RECURSIVE RowsLoop(_, _, _, _)
RowsLoop(lines, headers, delimiter, i) ==
    IF i > Len(lines) THEN <<>>
    ELSE IF Trim(lines[i]) = <<>>
         THEN RowsLoop(lines, headers, delimiter, i + 1)
         ELSE <<ZipRow(headers, TokenizeLine(lines[i], delimiter), 1, EmptyObject)>>
              \o RowsLoop(lines, headers, delimiter, i + 1)

csvToArray(csvString) ==
    LET lines == DocumentLines(csvString) IN
    IF Len(lines) <= 1 THEN <<>>
    ELSE LET delimiter == detectDelimiter(csvString)
             headers == parseCSVHeader(lines[1], delimiter)
         IN RowsLoop(lines, headers, delimiter, 2)

\* ------------------------------------------------------------------------
\* Texts the source names (column names, enum values), as character sequences
\* ------------------------------------------------------------------------
S_name == <<"n", "a", "m", "e">>
S_notes == <<"n", "o", "t", "e", "s">>
S_isin == <<"i", "s", "i", "n">>
S_ticker == <<"t", "i", "c", "k", "e", "r">>
S_assetType == <<"a", "s", "s", "e", "t", "T", "y", "p", "e">>
S_purchaseDate == <<"p", "u", "r", "c", "h", "a", "s", "e", "D", "a", "t", "e">>
S_quantity == <<"q", "u", "a", "n", "t", "i", "t", "y">>
S_purchasePrice == <<"p", "u", "r", "c", "h", "a", "s", "e", "P", "r", "i", "c", "e">>
S_currency == <<"c", "u", "r", "r", "e", "n", "c", "y">>
S_nominalValue == <<"n", "o", "m", "i", "n", "a", "l", "V", "a", "l", "u", "e">>
S_couponRate == <<"c", "o", "u", "p", "o", "n", "R", "a", "t", "e">>
S_stock == <<"s", "t", "o", "c", "k">>
S_etf == <<"e", "t", "f">>
S_bond == <<"b", "o", "n", "d">>
S_EUR == <<"E", "U", "R">>
S_USD == <<"U", "S", "D">>

LowerCase == <<"a", "b", "c", "d", "e", "f", "g", "h", "i", "j", "k", "l", "m", "n", "o", "p", "q", "r", "s", "t", "u", "v", "w", "x", "y", "z">>
UpperCase == <<"A", "B", "C", "D", "E", "F", "G", "H", "I", "J", "K", "L", "M", "N", "O", "P", "Q", "R", "S", "T", "U", "V", "W", "X", "Y", "Z">>

\* the position of a character in an alphabet, 0 when it is not in it
IndexIn(alphabet, c) ==
    IF \E i \in 1..Len(alphabet) : alphabet[i] = c
    THEN CHOOSE i \in 1..Len(alphabet) : alphabet[i] = c
    ELSE 0

\* String.prototype.toUpperCase / toLowerCase on the ASCII letters
toUpperCase(s) ==
    [i \in 1..Len(s) |->
        IF IndexIn(LowerCase, s[i]) # 0 THEN UpperCase[IndexIn(LowerCase, s[i])] ELSE s[i]]

\* a lower-casing that leaves the text as it is
toLowerCaseForgotten(s) == s

toLowerCase(s) ==
    [i \in 1..Len(s) |->
        IF IndexIn(UpperCase, s[i]) # 0 THEN LowerCase[IndexIn(UpperCase, s[i])] ELSE s[i]]

\* ------------------------------------------------------------------------
\* Numbers: parseFloat, String(number)
\* ------------------------------------------------------------------------
\* A number is the exact decimal mant / 10^scale with its sign, kept
\* normalised (no trailing zero in the fraction, no negative zero); NaN and
\* undefined are tagged records of the same shape.
Digits == <<"0", "1", "2", "3", "4", "5", "6", "7", "8", "9">>
IsDigit(c) == IndexIn(Digits, c) # 0
DigitValue(c) == IndexIn(Digits, c) - 1

NaN == [tag |-> "NaN", neg |-> FALSE, mant |-> 0, scale |-> 0]
UndefinedNumber == [tag |-> "undefined", neg |-> FALSE, mant |-> 0, scale |-> 0]

RECURSIVE Normalise(_, _, _)
Normalise(neg, mant, scale) ==
    IF mant = 0 THEN [tag |-> "number", neg |-> FALSE, mant |-> 0, scale |-> 0]
    ELSE IF scale > 0 /\ mant % 10 = 0 THEN Normalise(neg, mant \div 10, scale - 1)
    ELSE [tag |-> "number", neg |-> neg, mant |-> mant, scale |-> scale]

Number(neg, mant, scale) == Normalise(neg, mant, scale)

isNaN(n) == n.tag = "NaN"
IsPositive(n) == n.tag = "number" /\ ~n.neg /\ n.mant > 0
IsNegative(n) == n.tag = "number" /\ n.neg /\ n.mant > 0
IsZero(n) == n.tag = "number" /\ n.mant = 0

\* the digits of s from position i on: [mant, count, next]
RECURSIVE ScanDigits(_, _, _, _)
ScanDigits(s, i, mant, count) ==
    IF i <= Len(s) /\ IsDigit(s[i])
    THEN ScanDigits(s, i + 1, mant * 10 + DigitValue(s[i]), count + 1)
    ELSE [mant |-> mant, count |-> count, next |-> i]

\* parseFloat: the longest prefix of the text, after leading white space,
\* that is a decimal literal [+-]digits[.digits] or [+-].digits; NaN when
\* there is none.  (Exponents and "Infinity" are not texts of the model.)
parseFloat(text) ==
    LET s == TrimStart(text)
        signed == s # <<>> /\ s[1] \in {"-", "+"}
        neg == s # <<>> /\ s[1] = "-"
        start == IF signed THEN 2 ELSE 1
        int == ScanDigits(s, start, 0, 0)
        hasDot == int.next <= Len(s) /\ s[int.next] = "."
        frac == IF hasDot THEN ScanDigits(s, int.next + 1, int.mant, 0)
                ELSE [mant |-> int.mant, count |-> 0, next |-> int.next]
    IN IF int.count = 0 /\ frac.count = 0 THEN NaN
       ELSE Number(neg, frac.mant, frac.count)

\* the decimal digits of a natural number
RECURSIVE NatToText(_)
NatToText(n) ==
    IF n < 10 THEN <<Digits[n + 1]>>
    ELSE NatToText(n \div 10) \o <<Digits[(n % 10) + 1]>>

RECURSIVE Pow10(_)
Pow10(k) == IF k = 0 THEN 1 ELSE 10 * Pow10(k - 1)

\* the digits of n, padded with zeros on the left to the given width
RECURSIVE PadZeros(_, _)
PadZeros(t, width) == IF Len(t) >= width THEN t ELSE PadZeros(<<"0">> \o t, width)

\* String(number) for the decimals of the model
NumberToString(n) ==
    IF n.tag = "NaN" THEN <<"N", "a", "N">>
    ELSE LET whole == NatToText(n.mant \div Pow10(n.scale))
             fraction == IF n.scale = 0 THEN <<>>
                         ELSE <<".">> \o PadZeros(NatToText(n.mant % Pow10(n.scale)), n.scale)
         IN (IF n.neg THEN <<"-">> ELSE <<>>) \o whole \o fraction

\* ------------------------------------------------------------------------
\* Dates: new Date(text), new Date()
\* ------------------------------------------------------------------------
InvalidDate == [tag |-> "invalid", y |-> 0, m |-> 0, d |-> 0]
\* new Date(): the current instant, which no document text denotes
Now == [tag |-> "now", y |-> 0, m |-> 0, d |-> 0]

IsLeapYear(y) == (y % 4 = 0 /\ y % 100 # 0) \/ y % 400 = 0

DaysInMonth(y, m) ==
    IF m = 2 THEN (IF IsLeapYear(y) THEN 29 ELSE 28)
    ELSE IF m \in {4, 6, 9, 11} THEN 30 ELSE 31

\* the text has the shape dddd-dd-dd
IsIsoDateText(t) ==
    /\ Len(t) = 10
    /\ \A i \in {1, 2, 3, 4, 6, 7, 9, 10} : IsDigit(t[i])
    /\ t[5] = "-" /\ t[8] = "-"

\* the date-only forms YYYY and YYYY-MM of the date-time string format
IsYearText(t) == Len(t) = 4 /\ \A i \in 1..4 : IsDigit(t[i])

IsYearMonthText(t) ==
    /\ Len(t) = 7
    /\ \A i \in {1, 2, 3, 4, 6, 7} : IsDigit(t[i])
    /\ t[5] = "-"

\* new Date(text).  The date-only forms of the date-time string format are
\* YYYY, YYYY-MM and YYYY-MM-DD; a month or day left out is 1, and the
\* date is that calendar day at UTC midnight.  A month outside 1..12 or a
\* day outside 1..31 gives an Invalid Date.  A day 29..31 the month does
\* not have is engine-dependent: `rollsOver` engines (V8) move into the
\* next month, the others give an Invalid Date.  Every other text of the
\* model is an Invalid Date.
NewDate(text, rollsOver) ==
    IF IsYearText(text)
    THEN [tag |-> "date", y |-> ScanDigits(text, 1, 0, 0).mant, m |-> 1, d |-> 1]
    ELSE IF IsYearMonthText(text)
    THEN LET y == ScanDigits(text, 1, 0, 0).mant
             m == ScanDigits(text, 6, 0, 0).mant
         IN IF m < 1 \/ m > 12 THEN InvalidDate
            ELSE [tag |-> "date", y |-> y, m |-> m, d |-> 1]
    ELSE IF ~IsIsoDateText(text) THEN InvalidDate
    ELSE LET y == ScanDigits(text, 1, 0, 0).mant
             m == ScanDigits(text, 6, 0, 0).mant
             d == ScanDigits(text, 9, 0, 0).mant
         IN IF m < 1 \/ m > 12 \/ d < 1 \/ d > 31 THEN InvalidDate
            ELSE IF d <= DaysInMonth(y, m) THEN [tag |-> "date", y |-> y, m |-> m, d |-> d]
            ELSE IF ~rollsOver THEN InvalidDate
            ELSE [tag |-> "date", y |-> y, m |-> m + 1, d |-> d - DaysInMonth(y, m)]

\* isNaN(date.getTime())
IsInvalidDate(date) == date.tag = "invalid"

\* ------------------------------------------------------------------------
\* Exceptions: what a call of a row validator ends with
\* ------------------------------------------------------------------------
Return(v) == [threw |-> FALSE, value |-> v, message |-> ""]
Throw(msg) == [threw |-> TRUE, value |-> <<>>, message |-> msg]

\* !row.key?.trim()  (and, for a bank, !row.name || !row.name.trim())
Missing(row, key) ==
    LET v == GetProp(row, key) IN v = Undefined \/ Trim(v) = <<>>

\* row.key?.trim() || undefined
TrimmedOrUndefined(row, key) ==
    LET v == GetProp(row, key) IN
    IF v = Undefined \/ Trim(v) = <<>> THEN Undefined ELSE Trim(v)

\* ------------------------------------------------------------------------
\* parseBankRow, parseBankCSV (csv-banks.ts:58-106)
\* ------------------------------------------------------------------------
\* a validator that keeps notes that are empty after the trim
parseBankRowKeepsEmptyNotes(row, rowIndex) ==
    IF Missing(row, S_name)
    THEN Throw("Bank-Name ist ein Pflichtfeld")
    ELSE Return([name |-> Trim(GetProp(row, S_name)),
                 notes |-> IF GetProp(row, S_notes) = Undefined THEN Undefined
                           ELSE Trim(GetProp(row, S_notes)),
                 createdAt |-> Now])

parseBankRow(row, rowIndex) ==
    IF Missing(row, S_name)
    THEN Throw("Bank-Name ist ein Pflichtfeld")
    ELSE Return([name |-> Trim(GetProp(row, S_name)),
                 notes |-> TrimmedOrUndefined(row, S_notes),
                 createdAt |-> Now])

\* the partial row the catch block of parseBankCSV builds for the preview
BankPreviewRow(row, rowNumber, errorMessage) ==
    [name |-> IF Missing(row, S_name) THEN <<>> ELSE Trim(GetProp(row, S_name)),
     notes |-> IF GetProp(row, S_notes) = Undefined THEN Undefined
               ELSE Trim(GetProp(row, S_notes)),
     createdAt |-> Now,
     _rowNumber |-> rowNumber,
     _error |-> errorMessage]

\* what the batch parsers accumulate; raised is set when an exception leaves
\* the callback of forEach
EmptyBatch == [success |-> <<>>, errors |-> <<>>, allRows |-> <<>>, raised |-> FALSE]

\* a catch block that records the preview row but forgets errors.push
BankRowStepSwallow(acc, row, index) ==
    LET rowNumber == index + 2
        r == parseBankRow(row, rowNumber)
    IN IF ~r.threw
       THEN [acc EXCEPT !.success = Append(@, r.value),
                        !.allRows = Append(@, r.value @@ [_rowNumber |-> rowNumber])]
       ELSE [acc EXCEPT !.allRows = Append(@, BankPreviewRow(row, rowNumber, r.message))]

\* a callback that numbers an error by its rank among the failures
BankRowStepRankNumber(acc, row, index) ==
    LET rowNumber == index + 2
        r == parseBankRow(row, rowNumber)
    IN IF ~r.threw
       THEN [acc EXCEPT !.success = Append(@, r.value),
                        !.allRows = Append(@, r.value @@ [_rowNumber |-> rowNumber])]
       ELSE [acc EXCEPT !.errors = Append(@, [row |-> Len(acc.errors) + 2, error |-> r.message]),
                        !.allRows = Append(@, BankPreviewRow(row, rowNumber, r.message))]

\* one call of the callback of rows.forEach in parseBankCSV
BankRowStep(acc, row, index) ==
    LET rowNumber == index + 2
        r == parseBankRow(row, rowNumber)
    IN IF ~r.threw
       THEN [acc EXCEPT !.success = Append(@, r.value),
                        !.allRows = Append(@, r.value @@ [_rowNumber |-> rowNumber])]
       ELSE [acc EXCEPT !.errors = Append(@, [row |-> rowNumber, error |-> r.message]),
                        !.allRows = Append(@, BankPreviewRow(row, rowNumber, r.message))]

\* a loop that gives up the rows after the first row that failed
RECURSIVE BankForEachStopsAtError(_, _, _)
BankForEachStopsAtError(rows, index, acc) ==
    IF index >= Len(rows) \/ acc.raised \/ acc.errors # <<>> THEN acc
    ELSE BankForEachStopsAtError(rows, index + 1, BankRowStep(acc, rows[index + 1], index))

\* rows.forEach: index counts from 0; an exception ends the iteration
RECURSIVE BankForEach(_, _, _)
BankForEach(rows, index, acc) ==
    IF index >= Len(rows) \/ acc.raised THEN acc
    ELSE BankForEach(rows, index + 1, BankRowStep(acc, rows[index + 1], index))

parseBankCSV(csvContentArg) ==
    BankForEach(csvToArray(csvContentArg), 0, EmptyBatch)

\* ------------------------------------------------------------------------
\* parsePositionRow, parsePositionCSV (csv-positions.ts:108-268)
\* ------------------------------------------------------------------------
\* a bond branch that takes the coupon for optional
BondFieldsCouponOptional(row) ==
    IF Missing(row, S_nominalValue)
    THEN Throw("Nominalwert ist für Anleihen ein Pflichtfeld")
    ELSE LET nominalValue == parseFloat(Trim(GetProp(row, S_nominalValue))) IN
         IF isNaN(nominalValue) \/ ~IsPositive(nominalValue)
         THEN Throw("Nominalwert muss eine positive Zahl sein")
         ELSE IF Missing(row, S_couponRate)
         THEN Return([nominalValue |-> nominalValue, couponRate |-> UndefinedNumber])
         ELSE LET couponRate == parseFloat(Trim(GetProp(row, S_couponRate))) IN
              IF isNaN(couponRate) \/ IsNegative(couponRate)
              THEN Throw("Kupon muss eine nicht-negative Zahl sein")
              ELSE Return([nominalValue |-> nominalValue, couponRate |-> couponRate])

\* the bond branch of parsePositionRow (csv-positions.ts:169-187)
BondFields(row) ==
    IF Missing(row, S_nominalValue)
    THEN Throw("Nominalwert ist für Anleihen ein Pflichtfeld")
    ELSE LET nominalValue == parseFloat(Trim(GetProp(row, S_nominalValue))) IN
         IF isNaN(nominalValue) \/ ~IsPositive(nominalValue)
         THEN Throw("Nominalwert muss eine positive Zahl sein")
         ELSE IF Missing(row, S_couponRate)
         THEN Throw("Kupon ist für Anleihen ein Pflichtfeld")
         ELSE LET couponRate == parseFloat(Trim(GetProp(row, S_couponRate))) IN
              IF isNaN(couponRate) \/ IsNegative(couponRate)
              THEN Throw("Kupon muss eine nicht-negative Zahl sein")
              ELSE Return([nominalValue |-> nominalValue, couponRate |-> couponRate])

\* a stock/ETF branch that keeps the NaN of an unparsable text
OptionalNumberKeepsNaN(row, key) ==
    IF Missing(row, key) THEN UndefinedNumber
    ELSE parseFloat(Trim(GetProp(row, key)))

\* the stock/ETF branch (csv-positions.ts:188-202): a NaN becomes undefined
OptionalNumber(row, key) ==
    IF Missing(row, key) THEN UndefinedNumber
    ELSE LET n == parseFloat(Trim(GetProp(row, key))) IN
         IF isNaN(n) THEN UndefinedNumber ELSE n

\* a validator that checks the domain of assetType before the presence of
\* the fields after it
parsePositionRowDomainFirst(row, rowIndex, bankId, rollsOver) ==
    IF Missing(row, S_isin) THEN Throw("ISIN ist ein Pflichtfeld")
    ELSE IF Missing(row, S_ticker) THEN Throw("Ticker ist ein Pflichtfeld")
    ELSE IF Missing(row, S_assetType) THEN Throw("Asset-Typ ist ein Pflichtfeld")
    ELSE IF toLowerCase(Trim(GetProp(row, S_assetType))) \notin {S_stock, S_etf, S_bond}
    THEN Throw("Asset-Typ muss 'stock', 'etf' oder 'bond' sein")
    ELSE IF Missing(row, S_purchaseDate) THEN Throw("Kaufdatum ist ein Pflichtfeld")
    ELSE IF Missing(row, S_quantity) THEN Throw("Anzahl ist ein Pflichtfeld")
    ELSE IF Missing(row, S_purchasePrice) THEN Throw("Kaufpreis ist ein Pflichtfeld")
    ELSE IF Missing(row, S_currency) THEN Throw("Währung ist ein Pflichtfeld")
    ELSE
    LET assetType == toLowerCase(Trim(GetProp(row, S_assetType)))
        currency == toUpperCase(Trim(GetProp(row, S_currency)))
        quantity == parseFloat(Trim(GetProp(row, S_quantity)))
        purchasePrice == parseFloat(Trim(GetProp(row, S_purchasePrice)))
        purchaseDate == NewDate(Trim(GetProp(row, S_purchaseDate)), rollsOver)
        bond == BondFields(row)
    IN
    IF assetType \notin {S_stock, S_etf, S_bond}
    THEN Throw("Asset-Typ muss 'stock', 'etf' oder 'bond' sein")
    ELSE IF currency \notin {S_EUR, S_USD}
    THEN Throw("Währung muss 'EUR' oder 'USD' sein")
    ELSE IF isNaN(quantity) \/ ~IsPositive(quantity)
    THEN Throw("Anzahl muss eine positive Zahl sein")
    ELSE IF isNaN(purchasePrice) \/ ~IsPositive(purchasePrice)
    THEN Throw("Kaufpreis muss eine positive Zahl sein")
    ELSE IF IsInvalidDate(purchaseDate)
    THEN Throw("Kaufdatum hat ungültiges Format (erwartetes Format: YYYY-MM-DD)")
    ELSE IF assetType = S_bond /\ bond.threw
    THEN bond
    ELSE Return([bankId |-> bankId,
                 isin |-> toUpperCase(Trim(GetProp(row, S_isin))),
                 ticker |-> toUpperCase(Trim(GetProp(row, S_ticker))),
                 assetType |-> assetType,
                 purchaseDate |-> purchaseDate,
                 quantity |-> quantity,
                 purchasePrice |-> purchasePrice,
                 currency |-> currency,
                 notes |-> TrimmedOrUndefined(row, S_notes),
                 nominalValue |-> IF assetType = S_bond THEN bond.value.nominalValue
                                  ELSE OptionalNumber(row, S_nominalValue),
                 couponRate |-> IF assetType = S_bond THEN bond.value.couponRate
                                ELSE OptionalNumber(row, S_couponRate),
                 createdAt |-> Now])

parsePositionRow(row, rowIndex, bankId, rollsOver) ==
    IF Missing(row, S_isin) THEN Throw("ISIN ist ein Pflichtfeld")
    ELSE IF Missing(row, S_ticker) THEN Throw("Ticker ist ein Pflichtfeld")
    ELSE IF Missing(row, S_assetType) THEN Throw("Asset-Typ ist ein Pflichtfeld")
    ELSE IF Missing(row, S_purchaseDate) THEN Throw("Kaufdatum ist ein Pflichtfeld")
    ELSE IF Missing(row, S_quantity) THEN Throw("Anzahl ist ein Pflichtfeld")
    ELSE IF Missing(row, S_purchasePrice) THEN Throw("Kaufpreis ist ein Pflichtfeld")
    ELSE IF Missing(row, S_currency) THEN Throw("Währung ist ein Pflichtfeld")
    ELSE
    LET assetType == toLowerCase(Trim(GetProp(row, S_assetType)))
        currency == toUpperCase(Trim(GetProp(row, S_currency)))
        quantity == parseFloat(Trim(GetProp(row, S_quantity)))
        purchasePrice == parseFloat(Trim(GetProp(row, S_purchasePrice)))
        purchaseDate == NewDate(Trim(GetProp(row, S_purchaseDate)), rollsOver)
        bond == BondFields(row)
    IN
    IF assetType \notin {S_stock, S_etf, S_bond}
    THEN Throw("Asset-Typ muss 'stock', 'etf' oder 'bond' sein")
    ELSE IF currency \notin {S_EUR, S_USD}
    THEN Throw("Währung muss 'EUR' oder 'USD' sein")
    ELSE IF isNaN(quantity) \/ ~IsPositive(quantity)
    THEN Throw("Anzahl muss eine positive Zahl sein")
    ELSE IF isNaN(purchasePrice) \/ ~IsPositive(purchasePrice)
    THEN Throw("Kaufpreis muss eine positive Zahl sein")
    ELSE IF IsInvalidDate(purchaseDate)
    THEN Throw("Kaufdatum hat ungültiges Format (erwartetes Format: YYYY-MM-DD)")
    ELSE IF assetType = S_bond /\ bond.threw
    THEN bond
    ELSE Return([bankId |-> bankId,
                 isin |-> toUpperCase(Trim(GetProp(row, S_isin))),
                 ticker |-> toUpperCase(Trim(GetProp(row, S_ticker))),
                 assetType |-> assetType,
                 purchaseDate |-> purchaseDate,
                 quantity |-> quantity,
                 purchasePrice |-> purchasePrice,
                 currency |-> currency,
                 notes |-> TrimmedOrUndefined(row, S_notes),
                 nominalValue |-> IF assetType = S_bond THEN bond.value.nominalValue
                                  ELSE OptionalNumber(row, S_nominalValue),
                 couponRate |-> IF assetType = S_bond THEN bond.value.couponRate
                                ELSE OptionalNumber(row, S_couponRate),
                 createdAt |-> Now])

\* parseFloat(row.key) || 0 of the catch block: undefined, NaN and 0 give 0
FloatOrZero(row, key) ==
    LET v == GetProp(row, key)
        n == IF v = Undefined THEN NaN ELSE parseFloat(v)
    IN IF isNaN(n) THEN Number(FALSE, 0, 0) ELSE n

\* row.key ? parseFloat(row.key) : undefined of the catch block
FloatIfPresent(row, key) ==
    IF ~Truthy(GetProp(row, key)) THEN UndefinedNumber ELSE parseFloat(GetProp(row, key))

\* (row.key?.trim().toXxxCase() as any) || fallback of the catch block
CasedOr(row, key, upper, fallback) ==
    IF Missing(row, key) THEN fallback
    ELSE IF upper THEN toUpperCase(Trim(GetProp(row, key)))
    ELSE toLowerCase(Trim(GetProp(row, key)))

\* column names a document may use for the fields the caller owns
S_bankId == <<"b", "a", "n", "k", "I", "d">>
S_id == <<"i", "d">>

\* a preview row that takes bankId from the document when it has the column
PositionPreviewRowFromDocument(row, bankId, rowNumber, errorMessage, rollsOver) ==
    [bankId |-> IF GetProp(row, S_bankId) = Undefined THEN bankId
                ELSE ScanDigits(GetProp(row, S_bankId), 1, 0, 0).mant,
     isin |-> IF Missing(row, S_isin) THEN <<>> ELSE Trim(GetProp(row, S_isin)),
     ticker |-> IF Missing(row, S_ticker) THEN <<>> ELSE Trim(GetProp(row, S_ticker)),
     assetType |-> CasedOr(row, S_assetType, FALSE, S_stock),
     purchaseDate |-> IF Truthy(GetProp(row, S_purchaseDate))
                      THEN NewDate(GetProp(row, S_purchaseDate), rollsOver) ELSE Now,
     quantity |-> FloatOrZero(row, S_quantity),
     purchasePrice |-> FloatOrZero(row, S_purchasePrice),
     currency |-> CasedOr(row, S_currency, TRUE, S_EUR),
     notes |-> IF GetProp(row, S_notes) = Undefined THEN Undefined
               ELSE Trim(GetProp(row, S_notes)),
     nominalValue |-> FloatIfPresent(row, S_nominalValue),
     couponRate |-> FloatIfPresent(row, S_couponRate),
     createdAt |-> Now,
     _rowNumber |-> rowNumber,
     _error |-> errorMessage]

\* the partial row the catch block of parsePositionCSV builds for the preview
PositionPreviewRow(row, bankId, rowNumber, errorMessage, rollsOver) ==
    [bankId |-> bankId,
     isin |-> IF Missing(row, S_isin) THEN <<>> ELSE Trim(GetProp(row, S_isin)),
     ticker |-> IF Missing(row, S_ticker) THEN <<>> ELSE Trim(GetProp(row, S_ticker)),
     assetType |-> CasedOr(row, S_assetType, FALSE, S_stock),
     purchaseDate |-> IF Truthy(GetProp(row, S_purchaseDate))
                      THEN NewDate(GetProp(row, S_purchaseDate), rollsOver) ELSE Now,
     quantity |-> FloatOrZero(row, S_quantity),
     purchasePrice |-> FloatOrZero(row, S_purchasePrice),
     currency |-> CasedOr(row, S_currency, TRUE, S_EUR),
     notes |-> IF GetProp(row, S_notes) = Undefined THEN Undefined
               ELSE Trim(GetProp(row, S_notes)),
     nominalValue |-> FloatIfPresent(row, S_nominalValue),
     couponRate |-> FloatIfPresent(row, S_couponRate),
     createdAt |-> Now,
     _rowNumber |-> rowNumber,
     _error |-> errorMessage]

\* a callback without try/catch: the validator's exception leaves forEach
PositionRowStepUncaught(acc, row, index, bankId, rollsOver) ==
    LET rowNumber == index + 2
        r == parsePositionRow(row, rowNumber, bankId, rollsOver)
    IN IF ~r.threw
       THEN [acc EXCEPT !.success = Append(@, r.value),
                        !.allRows = Append(@, r.value @@ [_rowNumber |-> rowNumber])]
       ELSE [acc EXCEPT !.raised = TRUE]

\* one call of the callback of rows.forEach in parsePositionCSV
PositionRowStep(acc, row, index, bankId, rollsOver) ==
    LET rowNumber == index + 2
        r == parsePositionRow(row, rowNumber, bankId, rollsOver)
    IN IF ~r.threw
       THEN [acc EXCEPT !.success = Append(@, r.value),
                        !.allRows = Append(@, r.value @@ [_rowNumber |-> rowNumber])]
       ELSE [acc EXCEPT !.errors = Append(@, [row |-> rowNumber, error |-> r.message]),
                        !.allRows = Append(@, PositionPreviewRow(row, bankId, rowNumber,
                                                                 r.message, rollsOver))]

RECURSIVE PositionForEach(_, _, _, _, _)
PositionForEach(rows, index, acc, bankId, rollsOver) ==
    IF index >= Len(rows) \/ acc.raised THEN acc
    ELSE PositionForEach(rows, index + 1,
                         PositionRowStep(acc, rows[index + 1], index, bankId, rollsOver),
                         bankId, rollsOver)

parsePositionCSV(csvContentArg, bankId, rollsOver) ==
    PositionForEach(csvToArray(csvContentArg), 0, EmptyBatch, bankId, rollsOver)

\* ------------------------------------------------------------------------
\* arrayToCSV (part_000:46-72)
\* ------------------------------------------------------------------------
\* A field of a row handed to arrayToCSV is a string, a number, a Date,
\* undefined or null.
Str(text) == [type |-> "string", text |-> text, num |-> NaN, date |-> InvalidDate]
Num(n) == [type |-> "number", text |-> <<>>, num |-> n, date |-> InvalidDate]
DateCell(d) == [type |-> "date", text |-> <<>>, num |-> NaN, date |-> d]
UndefinedCell == [type |-> "undefined", text |-> <<>>, num |-> NaN, date |-> InvalidDate]
NullCell == [type |-> "null", text |-> <<>>, num |-> NaN, date |-> InvalidDate]

\* row[header]: undefined when the row has no such property
Cell(row, header) == IF header \in DOMAIN row THEN row[header] ELSE UndefinedCell

\* date.toISOString().split('T')[0] of a valid date (the exporters are
\* handed stored records, whose dates are valid)
DateToIso(d) ==
    IF d.tag = "now" THEN <<"t", "o", "d", "a", "y">>
    ELSE PadZeros(NatToText(d.y), 4) \o <<"-">> \o PadZeros(NatToText(d.m), 2)
         \o <<"-">> \o PadZeros(NatToText(d.d), 2)

\* String(value ?? '')
StringOf(cell) ==
    IF cell.type = "string" THEN cell.text
    ELSE IF cell.type = "number" THEN NumberToString(cell.num)
    ELSE <<>>

\* a replace that leaves the quotes single
DoubleQuotesForgotten(s) == s

\* stringValue.replace(/"/g, '""')
RECURSIVE DoubleQuotes(_)
DoubleQuotes(s) ==
    IF s = <<>> THEN <<>>
    ELSE IF Head(s) = Quote THEN <<Quote, Quote>> \o DoubleQuotes(Tail(s))
    ELSE <<Head(s)>> \o DoubleQuotes(Tail(s))

\* a serializer that quotes only the fields with a comma
FieldToCSVCommaOnly(cell) ==
    IF cell.type = "date" THEN DateToIso(cell.date)
    ELSE LET stringValue == StringOf(cell) IN
         IF Includes(stringValue, Comma)
         THEN <<Quote>> \o DoubleQuotes(stringValue) \o <<Quote>>
         ELSE stringValue

\* the callback of headers.map: the text of one field
FieldToCSV(cell) ==
    IF cell.type = "date" THEN DateToIso(cell.date)
    ELSE LET stringValue == StringOf(cell) IN
         IF Includes(stringValue, Comma) \/ Includes(stringValue, Quote)
         THEN <<Quote>> \o DoubleQuotes(stringValue) \o <<Quote>>
         ELSE stringValue

\* the callback of data.map: the line of one row
RowToCSV(row, headers) ==
    Join([i \in 1..Len(headers) |-> FieldToCSV(Cell(row, headers[i]))], Comma)

\* a serializer that leaves out the header line
arrayToCSVWithoutHeader(data, headers) ==
    Join([i \in 1..Len(data) |-> RowToCSV(data[i], headers)], Newline)

arrayToCSV(data, headers) ==
    IF Len(data) = 0 THEN Join(headers, Comma) \o <<Newline>>
    ELSE Join(<<Join(headers, Comma)>> \o [i \in 1..Len(data) |-> RowToCSV(data[i], headers)],
              Newline)

\* ------------------------------------------------------------------------
\* The exporters (csv-banks.ts:15-53, csv-positions.ts:15-103)
\* ------------------------------------------------------------------------
BANK_CSV_HEADERS == <<S_name, S_notes>>

POSITION_CSV_HEADERS ==
    <<S_isin, S_ticker, S_assetType, S_purchaseDate, S_quantity, S_purchasePrice,
      S_currency, S_notes, S_nominalValue, S_couponRate>>

NoFile == [content |-> Undefined, filename |-> Undefined]
NoAlert == ""

\* what a call of an exporter does: an alert, or a file handed to downloadFile
Alerts(msg) == [alert |-> msg, file |-> NoFile]
Downloads(content, filename) ==
    [alert |-> NoAlert, file |-> [content |-> content, filename |-> filename]]

\* new Date().toISOString().split('T')[0]
Timestamp == DateToIso(Now)

\* a row object whose properties are the given cells, in header order
RowOf(headers, cells) ==
    [h \in {headers[i] : i \in 1..Len(headers)} |->
        cells[CHOOSE i \in 1..Len(headers) : headers[i] = h]]

\* value || '' for a text that may be undefined
TextOrEmpty(v) == IF Truthy(v) THEN Str(v) ELSE Str(<<>>)

\* value || '' for a number that may be undefined: 0 and NaN are falsy too
NumberOrEmpty(n) == IF n.tag = "number" /\ n.mant # 0 THEN Num(n) ELSE Str(<<>>)

\* an exporter without the guard for an empty list
exportBanksToCSVUnguarded(banks) ==
    LET banksForExport ==
            [i \in 1..Len(banks) |->
                RowOf(BANK_CSV_HEADERS, <<Str(banks[i].name), TextOrEmpty(banks[i].notes)>>)]
        csv == arrayToCSV(banksForExport, BANK_CSV_HEADERS)
    IN Downloads(csv, <<"b">> \o Timestamp)

exportBanksToCSV(banks) ==
    IF Len(banks) = 0 THEN Alerts("Keine Banken zum Exportieren vorhanden")
    ELSE LET banksForExport ==
                 [i \in 1..Len(banks) |->
                     RowOf(BANK_CSV_HEADERS, <<Str(banks[i].name), TextOrEmpty(banks[i].notes)>>)]
             csv == arrayToCSV(banksForExport, BANK_CSV_HEADERS)
         IN Downloads(csv, <<"b", "a", "n", "k", "e", "n", "-", "e", "x", "p", "o", "r", "t", "-">> \o Timestamp \o <<".", "c", "s", "v">>)

\* the seed rows of downloadExampleBankCSV and downloadExamplePositionCSV
exampleBanks ==
    <<RowOf(BANK_CSV_HEADERS,
          <<Str(<<"B", "e", "i", "s", "p", "i", "e", "l", "b", "a", "n", "k", " ", "A", "G">>),
            Str(<<"M", "e", "i", "n", " ", "H", "a", "u", "p", "t", "d", "e", "p", "o", "t">>)>>),
      RowOf(BANK_CSV_HEADERS,
          <<Str(<<"B", "r", "o", "k", "e", "r", " ", "X", "Y", "Z">>),
            Str(<<"F", "ü", "r", " ", "E", "T", "F", "-", "S", "p", "a", "r", "p", "l", "ä", "n", "e">>)>>)>>
examplePositions ==
    <<RowOf(POSITION_CSV_HEADERS,
          <<Str(<<"U", "S", "0", "3", "7", "8", "3", "3", "1", "0", "0", "5">>),
            Str(<<"A", "A", "P", "L">>),
            Str(<<"s", "t", "o", "c", "k">>),
            Str(<<"2", "0", "2", "4", "-", "0", "1", "-", "1", "5">>),
            Str(<<"1", "0">>),
            Str(<<"1", "8", "5", ".", "5", "0">>),
            Str(<<"U", "S", "D">>),
            Str(<<"T", "e", "c", "h", "-", "A", "k", "t", "i", "e">>),
            Str(<<>>),
            Str(<<>>)>>),
      RowOf(POSITION_CSV_HEADERS,
          <<Str(<<"I", "E", "0", "0", "B", "4", "L", "5", "Y", "9", "8", "3">>),
            Str(<<"I", "W", "D", "A">>),
            Str(<<"e", "t", "f">>),
            Str(<<"2", "0", "2", "4", "-", "0", "2", "-", "0", "1">>),
            Str(<<"5", "0">>),
            Str(<<"7", "8", ".", "2", "5">>),
            Str(<<"E", "U", "R">>),
            Str(<<"M", "S", "C", "I", " ", "W", "o", "r", "l", "d", " ", "E", "T", "F">>),
            Str(<<>>),
            Str(<<>>)>>),
      RowOf(POSITION_CSV_HEADERS,
          <<Str(<<"D", "E", "0", "0", "0", "1", "1", "3", "5", "0", "8", "5">>),
            Str(<<"D", "B", "R">>),
            Str(<<"b", "o", "n", "d">>),
            Str(<<"2", "0", "2", "4", "-", "0", "3", "-", "0", "1">>),
            Str(<<"1">>),
            Str(<<"1", "0", "0", "0", "0">>),
            Str(<<"E", "U", "R">>),
            Str(<<"B", "u", "n", "d", "e", "s", "a", "n", "l", "e", "i", "h", "e">>),
            Str(<<"1", "0", "0", "0", "0">>),
            Str(<<"4">>)>>)>>

downloadExampleBankCSV ==
    Downloads(arrayToCSV(exampleBanks, BANK_CSV_HEADERS), <<"b", "a", "n", "k", "e", "n", "-", "b", "e", "i", "s", "p", "i", "e", "l", ".", "c", "s", "v">>)
downloadExamplePositionCSV ==
    Downloads(arrayToCSV(examplePositions, POSITION_CSV_HEADERS), <<"p", "o", "s", "i", "t", "i", "o", "n", "e", "n", "-", "b", "e", "i", "s", "p", "i", "e", "l", ".", "c", "s", "v">>)

\* bankName.replace(/[^a-zA-Z0-9]/g, '-')
SafeName(bankName) ==
    [i \in 1..Len(bankName) |->
        IF IndexIn(LowerCase, bankName[i]) # 0 \/ IndexIn(UpperCase, bankName[i]) # 0
           \/ IsDigit(bankName[i])
        THEN bankName[i] ELSE "-"]

exportPositionsToCSV(positions, bankName) ==
    IF Len(positions) = 0 THEN Alerts("Keine Positionen zum Exportieren vorhanden")
    ELSE LET positionsForExport ==
                 [i \in 1..Len(positions) |->
                     RowOf(POSITION_CSV_HEADERS,
                           <<Str(positions[i].isin), Str(positions[i].ticker),
                             Str(positions[i].assetType), DateCell(positions[i].purchaseDate),
                             Num(positions[i].quantity), Num(positions[i].purchasePrice),
                             Str(positions[i].currency), TextOrEmpty(positions[i].notes),
                             NumberOrEmpty(positions[i].nominalValue),
                             NumberOrEmpty(positions[i].couponRate)>>)]
             csv == arrayToCSV(positionsForExport, POSITION_CSV_HEADERS)
         IN Downloads(csv, <<"p", "o", "s", "i", "t", "i", "o", "n", "e", "n", "-">> \o SafeName(bankName) \o <<"-">> \o Timestamp \o <<".", "c", "s", "v">>)

\* ------------------------------------------------------------------------
\* The inputs
\* ------------------------------------------------------------------------
MaxDocLen == 3      \* length of the documents over RawAlphabet
MaxLineLen == 2     \* length of the data line of a two-line document
MaxRows == 2        \* data lines (blank ones included) of a bank document
MaxFieldLen == 3    \* length of a field text handed to the serializer

\* all texts over an alphabet up to a length
Texts(alphabet, maxLen) == UNION {[1..n -> alphabet] : n \in 0..maxLen}

\* all sequences over a set up to a length
SeqsUpTo(S, maxLen) == UNION {[1..n -> S] : n \in 0..maxLen}

RawAlphabet == {"a", Comma, Semicolon, Quote, Space, Newline}
RawDocs == Texts(RawAlphabet, MaxDocLen)

\* a header line, a line break and any one data line
LineAlphabet == {"a", "b", Comma, Semicolon, Quote, Space}
HeaderLines ==
    {<<"a", ",", "b">>,
     <<"a", ";", "b">>,
     <<"a", ",", "a">>,
     <<"a">>,
     <<Quote, "a", ";", "b", Quote, ",", "b">>,
     <<"b", ";", "a", ";", "a">>}
CodecDocs ==
    {h \o <<Newline>> \o l : h \in HeaderLines, l \in Texts(LineAlphabet, MaxLineLen)}

\* bank documents: blank lines or none before the header, one of three
\* headers, up to MaxRows lines
BankHeaders ==
    {<<"n", "a", "m", "e", ",", "n", "o", "t", "e", "s">>,
     <<"n", "a", "m", "e", ";", "n", "o", "t", "e", "s">>,
     <<"n", "o", "t", "e", "s", ",", "n", "a", "m", "e">>}
BankLines ==
    {<<"A", "c", "m", "e", ",", "M", "a", "i", "n">>,
     <<",", "M", "i", "s", "s", "i", "n", "g">>,
     <<" ">>,
     <<>>,
     <<Quote, "A", ",", "B", Quote, ",", "x">>,
     <<" ", "A", "c", "m", "e", " ", ";", " ", "x", " ">>}
BankDocs ==
    {prefix \o h \o <<Newline>> \o Join(ls, Newline) :
        prefix \in {<<>>, <<Newline>>}, h \in BankHeaders, ls \in SeqsUpTo(BankLines, MaxRows)}

\* position documents: the header with either delimiter, then one line that
\* differs from a valid stock or bond line in one field, or two lines
ReplaceAt(seq, k, v) == [seq EXCEPT ![k] = v]

StockFields ==
    <<<<"u", "s", "1">>, <<"a", "b">>, <<"s", "t", "o", "c", "k">>, <<"2", "0", "2", "4", "-", "0", "1", "-", "1", "5">>, <<"1", "0">>, <<"1", "8", "5", ".", "5", "0">>, <<"u", "s", "d">>, <<"n">>, <<>>, <<>>>>
BondFields0 ==
    <<<<"d", "e", "1">>, <<"d", "b", "r">>, <<"b", "o", "n", "d">>, <<"2", "0", "2", "4", "-", "0", "3", "-", "0", "1">>, <<"1">>, <<"1", "0", "0", "0", "0">>, <<"E", "U", "R">>, <<>>, <<"1", "0", "0", "0", "0">>, <<"4">>>>

\* the texts tried in each column of the stock line, and of the bond line
StockVariants ==
    <<{<<>>}, {<<>>},
      {<<"S", "T", "O", "C", "K">>,
       <<"e", "t", "f">>,
       <<"f", "u", "n", "d">>,
       <<>>},
      {<<"2", "0", "2", "4", "-", "0", "2", "-", "3", "0">>,
       <<"1", "5", ".", "0", "1", ".", "2", "0", "2", "4">>,
       <<"2", "0", "2", "4", "-", "0", "3">>,
       <<"2", "0", "2", "4", "-", "1", "3", "-", "0", "1">>,
       <<>>},
      {<<"0">>,
       <<"-", "1">>,
       <<"1", ".", "5">>,
       <<"1", "0", "x">>,
       <<"x">>,
       <<>>},
      {<<"1", "8", "5", ",", "5", "0">>,
       <<"0">>,
       <<>>},
      {<<"E", "U", "R">>,
       <<"G", "B", "P">>,
       <<>>},
      {<<>>},
      {<<"1", "0", "0">>,
       <<"x">>,
       <<"-", "5">>},
      {<<"4">>,
       <<"x">>}>>
BondVariants ==
    <<{}, {}, {}, {}, {}, {}, {}, {},
      {<<>>,
       <<"0">>,
       <<"x">>,
       <<"-", "5">>},
      {<<>>,
       <<"0">>,
       <<"-", "1">>,
       <<"x">>}>>

PositionFieldLists ==
    {StockFields, BondFields0}
    \cup UNION {{ReplaceAt(StockFields, k, v) : v \in StockVariants[k]} : k \in 1..10}
    \cup UNION {{ReplaceAt(BondFields0, k, v) : v \in BondVariants[k]} : k \in 1..10}

PairedFieldLists ==
    {StockFields, BondFields0, ReplaceAt(StockFields, 7, <<>>),
     ReplaceAt(BondFields0, 9, <<>>)}

PositionDocs ==
    UNION {
        {Join(POSITION_CSV_HEADERS, d) \o <<Newline>> \o Join(f, d) :
            f \in PositionFieldLists}
        \cup
        {Join(POSITION_CSV_HEADERS, d) \o <<Newline>> \o Join(f, d)
            \o <<Newline>> \o Join(g, d) :
            f \in PairedFieldLists, g \in PairedFieldLists}
        : d \in {Comma, Semicolon}}

\* the documents the specification gives as examples
ExampleBankDoc ==
    <<"n", "a", "m", "e", ",", "n", "o", "t", "e", "s", Newline, "A", "c", "m", "e", " ", "B", "a", "n", "k", ",", "M", "a", "i", "n", " ", "a", "c", "c", "o", "u", "n", "t", Newline, ",", "M", "i", "s", "s", "i", "n", "g", " ", "n", "a", "m", "e">>
\* the header of the position columns and a line in mixed letter case
ExamplePositionDoc ==
    Join(POSITION_CSV_HEADERS, Comma) \o <<Newline>>
    \o <<"u", "s", "0", "3", "7", "8", "3", "3", "1", "0", "0", "5", ",", "a", "a", "p", "l", ",", "S", "T", "O", "C", "K", ",", "2", "0", "2", "4", "-", "0", "1", "-", "1", "5", ",", "1", "0", ",", "1", "8", "5", ".", "5", "0", ",", "u", "s", "d", ",", ",", ",">>
ExampleDocs == {ExampleBankDoc, ExamplePositionDoc}

\* position documents whose one data line breaks two checks: the bond line
\* with a faulty text in two of its columns
Faults ==
    <<{<<>>}, {<<>>},
      {<<>>, <<"f", "u", "n", "d">>},
      {<<>>, <<"1", "5", ".", "0", "1", ".", "2", "0", "2", "4">>},
      {<<>>, <<"0">>},
      {<<>>, <<"x">>},
      {<<>>, <<"G", "B", "P">>},
      {},
      {<<>>, <<"0">>},
      {<<>>, <<"-", "1">>}>>
FaultyFieldLists ==
    UNION {UNION {{ReplaceAt(ReplaceAt(BondFields0, j, v), k, w) :
                      v \in Faults[j], w \in Faults[k]} : k \in (j + 1)..10} : j \in 1..10}
FaultyDocs ==
    {Join(POSITION_CSV_HEADERS, Comma) \o <<Newline>> \o Join(f, Comma) :
        f \in FaultyFieldLists}

\* position documents with the two further columns bankId and id
ForeignKeyLines ==
    {Join(f \o <<<<"9">>, <<"7">>>>, Comma) : f \in {StockFields, ReplaceAt(StockFields, 1, <<>>)}}
ForeignKeyDocs ==
    {Join(POSITION_CSV_HEADERS \o <<S_bankId, S_id>>, Comma) \o <<Newline>> \o Join(ls, Newline) :
        ls \in [1..1 -> ForeignKeyLines] \cup [1..2 -> ForeignKeyLines]}

Docs ==
    RawDocs \cup CodecDocs \cup BankDocs \cup PositionDocs \cup ExampleDocs \cup FaultyDocs
    \cup ForeignKeyDocs

\* the caller's bank identifiers
BankIds == {1, 2}

\* ------------------------------------------------------------------------
\* The records handed to the serializer and to the exporters
\* ------------------------------------------------------------------------
FieldAlphabet == {"a", Space, Comma, Quote}
FieldTexts == Texts(FieldAlphabet, MaxFieldLen)

\* stored banks: a name and notes that may be undefined
BankRecord(name, notes) == [name |-> name, notes |-> notes, createdAt |-> Now]
Banks ==
    {BankRecord(n, o) : n \in FieldTexts, o \in {Undefined, <<>>, <<"a">>, <<Comma>>}}
    \cup {BankRecord(<<"a">>, o) : o \in FieldTexts}
PairedBanks ==
    {BankRecord(<<"a">>, Undefined), BankRecord(<<>>, <<>>),
     BankRecord(<<"a", Quote>>, <<Comma>>)}
BankLists ==
    {<<>>} \cup {<<b>> : b \in Banks} \cup {<<b, c>> : b \in PairedBanks, c \in PairedBanks}

\* stored positions (the exporter's input); dates are calendar dates
PositionRecord(assetType, quantity, notes, nominalValue, couponRate) ==
    [bankId |-> 1, isin |-> <<"D", "E", "1">>, ticker |-> <<"D", "B", "R">>, assetType |-> assetType,
     purchaseDate |-> [tag |-> "date", y |-> 2024, m |-> 3, d |-> 1],
     quantity |-> quantity, purchasePrice |-> Number(FALSE, 18550, 2),
     currency |-> S_EUR, notes |-> notes,
     nominalValue |-> nominalValue, couponRate |-> couponRate, createdAt |-> Now]
Positions ==
    {PositionRecord(S_stock, Number(FALSE, 10, 0), n, UndefinedNumber, UndefinedNumber) :
        n \in {Undefined, <<"a", Comma, Quote>>}}
    \cup {PositionRecord(S_bond, Number(FALSE, 15, 1), Undefined, Number(FALSE, 10000, 0), c) :
        c \in {Number(FALSE, 4, 0), Number(FALSE, 0, 0), Number(FALSE, 25, 1)}}
PositionLists ==
    {<<>>} \cup {<<q>> : q \in Positions} \cup {<<q, r>> : q \in Positions, r \in Positions}
BankNames == {<<"A", "c", "m", "e">>, <<"A", "&", "B", " ", "1">>}

\* rows handed to arrayToCSV directly: any field may be a string, a number,
\* a date, undefined, null, or not a property of the row at all
GenericHeaders == <<<<"x">>, <<"y">>>>
GenericCells ==
    {Str(t) : t \in FieldTexts}
    \cup {UndefinedCell, NullCell, Num(Number(FALSE, 15, 1)), Num(Number(TRUE, 2, 0)),
          DateCell([tag |-> "date", y |-> 2024, m |-> 1, d |-> 5])}
GenericRows ==
    {RowOf(GenericHeaders, <<c, Str(<<"a">>)>>) : c \in GenericCells}
    \cup {RowOf(GenericHeaders, <<Str(<<>>), c>>) : c \in GenericCells}
    \cup {RowOf(<<<<"y">>>>, <<c>>) : c \in GenericCells}
PairedRows ==
    {RowOf(GenericHeaders, <<Str(<<Comma>>), UndefinedCell>>),
     RowOf(GenericHeaders, <<Str(<<>>), Str(<<>>)>>),
     RowOf(GenericHeaders, <<Str(<<Quote>>), NullCell>>)}
RowLists ==
    {<<>>} \cup {<<r>> : r \in GenericRows} \cup {<<r, q>> : r \in PairedRows, q \in PairedRows}

NoInput == [kind |-> "none", data |-> <<>>, headers |-> <<>>, bankName |-> <<>>]
Inputs ==
    {[kind |-> "rows", data |-> d, headers |-> GenericHeaders, bankName |-> <<>>] :
        d \in RowLists}
    \cup {[kind |-> "banks", data |-> d, headers |-> BANK_CSV_HEADERS, bankName |-> <<>>] :
        d \in BankLists}
    \cup {[kind |-> "positions", data |-> d, headers |-> POSITION_CSV_HEADERS, bankName |-> n] :
        d \in PositionLists, n \in BankNames}

\* ------------------------------------------------------------------------
\* The store (db.ts:1-51): two tables with auto-incremented ids
\* ------------------------------------------------------------------------
\* the highest ids the tables hand out
MaxBankId == 2
MaxPositionId == 2

EmptyDb == [banks |-> {}, positions |-> {}, bankSeq |-> 1, positionSeq |-> 1]

\* the operations the handlers await
ToArray == [kind |-> "banks.toArray", id |-> 0, record |-> <<>>]
AddBank(record) == [kind |-> "banks.add", id |-> 0, record |-> record]
DeleteBank(id) == [kind |-> "banks.delete", id |-> id, record |-> <<>>]
AddPosition(record) == [kind |-> "positions.add", id |-> 0, record |-> record]
DeletePositionsOf(bankId) ==
    [kind |-> "positions.where.delete", id |-> bankId, record |-> <<>>]

\* the store after an operation that resolved
Apply(store, operation) ==
    IF operation.kind = "banks.add"
    THEN [store EXCEPT !.banks = @ \cup {operation.record @@ [id |-> store.bankSeq]},
                       !.bankSeq = @ + 1]
    ELSE IF operation.kind = "banks.delete"
    THEN [store EXCEPT !.banks = {b \in @ : b.id # operation.id}]
    ELSE IF operation.kind = "positions.add"
    THEN [store EXCEPT !.positions = @ \cup {operation.record @@ [id |-> store.positionSeq]},
                       !.positionSeq = @ + 1]
    ELSE IF operation.kind = "positions.where.delete"
    THEN [store EXCEPT !.positions = {p \in @ : p.bankId # operation.id}]
    ELSE store

\* toArray(): the records of a table in the order of their ids
ById(table) ==
    [k \in 1..Cardinality(table) |->
        CHOOSE r \in table : Cardinality({q \in table : q.id <= r.id}) = k]

\* ------------------------------------------------------------------------
\* sessionStorage and JSON (depots/page.tsx:113-125, depots/[id]/page.tsx:297-309)
\* ------------------------------------------------------------------------
\* JSON.parse(JSON.stringify(date)): a Date comes back as the text of its
\* toISOString(), an invalid Date as null; the tag tells the text from the
\* Date it was made of
toJSON(date) ==
    [date EXCEPT !.tag = IF date.tag = "date" THEN "isoString"
                         ELSE IF date.tag = "now" THEN "isoStringOfNow"
                         ELSE "null"]

JsonRecord(record) ==
    [f \in DOMAIN record |->
        IF f \in {"createdAt", "purchaseDate"} THEN toJSON(record[f]) ELSE record[f]]

\* getItem of a key that was never set, or was removed
NoItem == [present |-> FALSE, success |-> <<>>, errors |-> <<>>]

\* JSON.parse(JSON.stringify(result)), as far as the handlers read it
Item(batch) ==
    [present |-> TRUE,
     success |-> [k \in 1..Len(batch.success) |-> JsonRecord(batch.success[k])],
     errors |-> batch.errors]

EmptyStorage == [banks_import_preview |-> NoItem, positions_import_preview |-> NoItem]

\* ------------------------------------------------------------------------
\* The pages (depots/page.tsx, depots/[id]/page.tsx, part_002, part_003)
\* ------------------------------------------------------------------------
\* a page as it is shown after a navigation: no handler has run on it
Shown(view, bankId, previewData) ==
    [view |-> view, bankId |-> bankId, previewData |-> previewData,
     isProcessing |-> FALSE, handler |-> "none", pending |-> <<>>,
     before |-> EmptyDb, outcome |-> "none"]

\* ------------------------------------------------------------------------
\* The state machine: an input is chosen, and the functions are applied
\* ------------------------------------------------------------------------
Init ==
    /\ \/ csvContent \in Docs /\ input = NoInput
       \/ csvContent = <<>> /\ input \in Inputs
    /\ op = "none"
    /\ result = <<>>
    /\ download = NoFile
    /\ alerted = NoAlert
    /\ db = EmptyDb
    /\ sessionStorage = EmptyStorage
    /\ page = Shown("depots", 0, NoItem)

\* a function is applied to a document as it was read
Fresh == op \in {"none", "readFile"}

DetectDelimiter ==
    /\ Fresh
    /\ op' = "detectDelimiter"
    /\ result' = detectDelimiter(csvContent)
    /\ UNCHANGED <<csvContent, input, download, alerted, db, sessionStorage, page>>

\* parseCSVHeader applied to the line csvToArray takes as the header
ParseCSVHeader ==
    /\ Fresh
    /\ \E d \in {Comma, Semicolon} :
         result' = [line |-> DocumentLines(csvContent)[1], delimiter |-> d,
                    headers |-> parseCSVHeader(DocumentLines(csvContent)[1], d)]
    /\ op' = "parseCSVHeader"
    /\ UNCHANGED <<csvContent, input, download, alerted, db, sessionStorage, page>>

\* the tokenizer applied to a line of the document with either delimiter
Tokenize ==
    /\ Fresh
    /\ \E i \in 1..Len(DocumentLines(csvContent)), d \in {Comma, Semicolon} :
         result' = [line |-> DocumentLines(csvContent)[i], delimiter |-> d,
                    values |-> TokenizeLine(DocumentLines(csvContent)[i], d)]
    /\ op' = "tokenize"
    /\ UNCHANGED <<csvContent, input, download, alerted, db, sessionStorage, page>>

CsvToArray ==
    /\ Fresh
    /\ op' = "csvToArray"
    /\ result' = csvToArray(csvContent)
    /\ UNCHANGED <<csvContent, input, download, alerted, db, sessionStorage, page>>

ParseBankCSV ==
    /\ Fresh
    /\ op' = "parseBankCSV"
    /\ result' = parseBankCSV(csvContent)
    /\ UNCHANGED <<csvContent, input, download, alerted, db, sessionStorage, page>>

ParsePositionCSV ==
    /\ Fresh
    /\ \E bankId \in BankIds, rollsOver \in BOOLEAN :
         result' = parsePositionCSV(csvContent, bankId, rollsOver)
                    @@ [bankId |-> bankId, rollsOver |-> rollsOver]
    /\ op' = "parsePositionCSV"
    /\ UNCHANGED <<csvContent, input, download, alerted, db, sessionStorage, page>>

ArrayToCSV ==
    /\ op = "none"
    /\ input.kind = "rows"
    /\ op' = "arrayToCSV"
    /\ result' = arrayToCSV(input.data, input.headers)
    /\ UNCHANGED <<csvContent, input, download, alerted, db, sessionStorage, page>>

\* an exporter: the alert is shown, or the file is handed to downloadFile
Export(name, outcome) ==
    /\ op' = name
    /\ result' = <<>>
    /\ alerted' = outcome.alert
    /\ download' = outcome.file
    /\ UNCHANGED <<csvContent, input, db, sessionStorage, page>>

ExportBanksToCSV ==
    /\ op = "none"
    /\ input.kind = "banks"
    /\ Export("exportBanksToCSV", exportBanksToCSV(input.data))

ExportPositionsToCSV ==
    /\ op = "none"
    /\ input.kind = "positions"
    /\ Export("exportPositionsToCSV", exportPositionsToCSV(input.data, input.bankName))

\* the template files: the user asks for an example document
DownloadExampleBankCSV ==
    /\ op = "none"
    /\ input = NoInput
    /\ csvContent = <<>>
    /\ Export("downloadExampleBankCSV", downloadExampleBankCSV)

DownloadExamplePositionCSV ==
    /\ op = "none"
    /\ input = NoInput
    /\ csvContent = <<>>
    /\ Export("downloadExamplePositionCSV", downloadExamplePositionCSV)

\* readFile: the user uploads the file an export has written
ReadFile ==
    /\ op \in {"exportBanksToCSV", "exportPositionsToCSV",
               "downloadExampleBankCSV", "downloadExamplePositionCSV"}
    /\ download # NoFile
    /\ op' = "readFile"
    /\ csvContent' = download.content
    /\ UNCHANGED <<input, result, download, alerted, db, sessionStorage, page>>

Next ==
    \/ DetectDelimiter
    \/ ParseCSVHeader
    \/ Tokenize
    \/ CsvToArray
    \/ ParseBankCSV
    \/ ParsePositionCSV
    \/ ArrayToCSV
    \/ ExportBanksToCSV
    \/ ExportPositionsToCSV
    \/ DownloadExampleBankCSV
    \/ DownloadExamplePositionCSV
    \/ ReadFile

Spec == Init /\ [][Next]_vars

\* ------------------------------------------------------------------------
\* The pages as a state machine: the depots pages and the two import preview pages
\* ------------------------------------------------------------------------
\* the files the user uploads for an import
S_Acme == <<"A", "c", "m", "e">>
ImportedBankDocs ==
    {S_name \o <<Newline>> \o S_Acme,
     Join(BANK_CSV_HEADERS, Comma) \o <<Newline>> \o S_Acme \o <<Comma, Newline, Comma, "x">>}
ImportedPositionDocs ==
    {Join(POSITION_CSV_HEADERS, Comma) \o <<Newline>> \o Join(StockFields, Comma)
         \o <<Newline>> \o Join(BondFields0, Comma),
     Join(POSITION_CSV_HEADERS, Comma) \o <<Newline>> \o Join(StockFields, Comma)
         \o <<Newline>> \o Join(ReplaceAt(BondFields0, 9, <<>>), Comma)}

\* JSON.stringify(parseBankCSV(content)) and
\* JSON.stringify(parsePositionCSV(content, bankId)) read back, for each
\* uploaded document (and bank); the uploaded documents hold no date that an
\* engine could roll over
StagedBanks == [content \in ImportedBankDocs |-> Item(parseBankCSV(content))]
StagedPositions ==
    [content \in ImportedPositionDocs |->
        [bankId \in 1..MaxBankId |-> Item(parsePositionCSV(content, bankId, FALSE))]]

PageInit ==
    /\ csvContent = <<>>
    /\ input = NoInput
    /\ op = "none"
    /\ result = <<>>
    /\ download = NoFile
    /\ alerted = NoAlert
    /\ db = EmptyDb
    /\ sessionStorage = EmptyStorage
    /\ page = Shown("depots", 0, NoItem)

\* handleAddBank (depots/page.tsx:38-58)
HandleAddBank ==
    /\ page.view = "depots"
    /\ db.bankSeq <= MaxBankId
    /\ db' = Apply(db, AddBank([name |-> <<"A">>, notes |-> Undefined, createdAt |-> Now]))
    /\ page' = Shown("depots", 0, NoItem)
    /\ UNCHANGED <<csvContent, input, op, result, download, alerted, sessionStorage>>

\* handleDeleteBank (depots/page.tsx:60-69), the user having confirmed
HandleDeleteBank ==
    /\ page.view = "depots"
    /\ \E bank \in db.banks : db' = Apply(db, DeleteBank(bank.id))
    /\ page' = Shown("depots", 0, NoItem)
    /\ UNCHANGED <<csvContent, input, op, result, download, alerted, sessionStorage>>

\* handleImportBanks (depots/page.tsx:113-125): the result is staged and the
\* preview page is opened
HandleImportBanks ==
    /\ page.view = "depots"
    /\ \E content \in ImportedBankDocs :
         sessionStorage' =
             [sessionStorage EXCEPT !.banks_import_preview = StagedBanks[content]]
    /\ page' = Shown("bankPreview", 0, sessionStorage'.banks_import_preview)
    /\ UNCHANGED <<csvContent, input, op, result, download, alerted, db>>

\* handleImportPositions (depots/[id]/page.tsx:297-309) on the page of a bank
HandleImportPositions ==
    /\ page.view = "depots"
    /\ \E bank \in db.banks, content \in ImportedPositionDocs :
         /\ sessionStorage' =
                [sessionStorage EXCEPT
                    !.positions_import_preview = StagedPositions[content][bank.id]]
         /\ page' = Shown("positionPreview", bank.id,
                          sessionStorage'.positions_import_preview)
    /\ UNCHANGED <<csvContent, input, op, result, download, alerted, db>>

\* the bank preview page is opened through the browser (part_003:23-38):
\* without a staged result it sends the user back
OpenBankPreview ==
    /\ ~page.isProcessing
    /\ page.view # "bankPreview"
    /\ page' = IF sessionStorage.banks_import_preview.present
               THEN Shown("bankPreview", 0, sessionStorage.banks_import_preview)
               ELSE Shown("depots", 0, NoItem)
    /\ UNCHANGED <<csvContent, input, op, result, download, alerted, db, sessionStorage>>

\* the position preview page of a stored bank is opened through the browser
\* (part_002:18-39): the bank is that of the address
OpenPositionPreview ==
    /\ ~page.isProcessing
    /\ page.view # "positionPreview"
    /\ \E bank \in db.banks :
         page' = IF sessionStorage.positions_import_preview.present
                 THEN Shown("positionPreview", bank.id, sessionStorage.positions_import_preview)
                 ELSE Shown("depots", 0, NoItem)
    /\ UNCHANGED <<csvContent, input, op, result, download, alerted, db, sessionStorage>>

\* handleCancel (part_003:40-43, part_002:41-44)
HandleCancel ==
    /\ ~page.isProcessing
    /\ page.view \in {"bankPreview", "positionPreview"}
    /\ sessionStorage' =
           IF page.view = "bankPreview"
           THEN [sessionStorage EXCEPT !.banks_import_preview = NoItem]
           ELSE [sessionStorage EXCEPT !.positions_import_preview = NoItem]
    /\ page' = Shown("depots", 0, NoItem)
    /\ UNCHANGED <<csvContent, input, op, result, download, alerted, db>>

\* a guard that looks only for the staged result, not at its errors
returnsEarlyOnlyWithoutData(previewData) == ~previewData.present

\* if (!previewData || previewData.errors.length > 0) return;
returnsEarly(previewData) == ~previewData.present \/ Len(previewData.errors) > 0

\* the store operations of a commit, in the order they are awaited
AddBanks(previewData) ==
    [k \in 1..Len(previewData.success) |-> AddBank(previewData.success[k])]
AddPositions(previewData) ==
    [k \in 1..Len(previewData.success) |-> AddPosition(previewData.success[k])]
\* for (const bank of allBanks): the positions of the bank, then the bank
DeleteBanks(allBanks) ==
    [j \in 1..(2 * Len(allBanks)) |->
        IF j % 2 = 1 THEN DeletePositionsOf(allBanks[(j + 1) \div 2].id)
        ELSE DeleteBank(allBanks[j \div 2].id)]

StorageKey == IF page.view = "bankPreview" THEN "banks_import_preview"
              ELSE "positions_import_preview"

SuccessMessage(handler) ==
    IF handler = "banks.handleOverwrite"
    THEN " Banken erfolgreich importiert (alle Depots überschrieben)"
    ELSE IF handler = "banks.handleAppend" THEN " Banken erfolgreich hinzugefügt"
    ELSE IF handler = "positions.handleOverwrite"
    THEN " Positionen erfolgreich importiert (Depot überschrieben)"
    ELSE " Positionen erfolgreich hinzugefügt"

\* the lines after the last await: the staged result is removed, the alert
\* is shown and the user is sent back; handler, previewData and before keep
\* what the commit was called with
Finished(key, handler, before) ==
    /\ sessionStorage' = [sessionStorage EXCEPT ![key] = NoItem]
    /\ alerted' = ToString(Len(page.previewData.success)) \o SuccessMessage(handler)
    /\ page' = [page EXCEPT !.view = "depots", !.isProcessing = FALSE,
                            !.handler = handler, !.pending = <<>>,
                            !.before = before, !.outcome = "completed"]

\* a commit handler is called: it returns at once, or runs up to its first
\* await, or (nothing to await) to its end
Commit(handler, operations) ==
    /\ ~page.isProcessing
    /\ IF returnsEarly(page.previewData)
       THEN /\ page' = [page EXCEPT !.handler = handler, !.outcome = "returned",
                                    !.before = db]
            /\ UNCHANGED <<sessionStorage, alerted>>
       ELSE IF operations = <<>>
       THEN Finished(StorageKey, handler, db)
       ELSE /\ page' = [page EXCEPT !.isProcessing = TRUE, !.handler = handler,
                                    !.pending = operations, !.before = db,
                                    !.outcome = "running"]
            /\ UNCHANGED <<sessionStorage, alerted>>
    /\ UNCHANGED <<csvContent, input, op, result, download, db>>

\* handleOverwrite of the bank preview page (part_003:45-72)
HandleOverwriteBanks ==
    /\ page.view = "bankPreview"
    /\ db.bankSeq + Len(page.previewData.success) <= MaxBankId + 1
    /\ Commit("banks.handleOverwrite", <<ToArray>>)

\* handleAppend of the bank preview page (part_003:74-92)
HandleAppendBanks ==
    /\ page.view = "bankPreview"
    /\ db.bankSeq + Len(page.previewData.success) <= MaxBankId + 1
    /\ Commit("banks.handleAppend", AddBanks(page.previewData))

\* handleOverwrite of the position preview page (part_002:46-67)
HandleOverwritePositions ==
    /\ page.view = "positionPreview"
    /\ db.positionSeq + Len(page.previewData.success) <= MaxPositionId + 1
    /\ Commit("positions.handleOverwrite",
              <<DeletePositionsOf(page.bankId)>> \o AddPositions(page.previewData))

\* handleAppend of the position preview page (part_002:69-87)
HandleAppendPositions ==
    /\ page.view = "positionPreview"
    /\ db.positionSeq + Len(page.previewData.success) <= MaxPositionId + 1
    /\ Commit("positions.handleAppend", AddPositions(page.previewData))

\* an awaited store operation resolves, and the handler runs on to its next
\* await or to its end; or it rejects, and the catch block runs
StoreOperation ==
    /\ page.isProcessing
    /\ \/ LET operation == Head(page.pending)
              rest == IF operation.kind = "banks.toArray"
                      THEN DeleteBanks(ById(db.banks)) \o AddBanks(page.previewData)
                      ELSE Tail(page.pending)
          IN /\ db' = Apply(db, operation)
             /\ IF rest = <<>>
                THEN Finished(StorageKey, page.handler, page.before)
                ELSE /\ page' = [page EXCEPT !.pending = rest]
                     /\ UNCHANGED <<sessionStorage, alerted>>
       \/ /\ alerted' = "Fehler beim Importieren"
          /\ page' = [page EXCEPT !.isProcessing = FALSE, !.pending = <<>>,
                                  !.outcome = "failed"]
          /\ UNCHANGED <<db, sessionStorage>>
    /\ UNCHANGED <<csvContent, input, op, result, download>>

PageNext ==
    \/ HandleAddBank
    \/ HandleDeleteBank
    \/ HandleImportBanks
    \/ HandleImportPositions
    \/ OpenBankPreview
    \/ OpenPositionPreview
    \/ HandleCancel
    \/ HandleOverwriteBanks
    \/ HandleAppendBanks
    \/ HandleOverwritePositions
    \/ HandleAppendPositions
    \/ StoreOperation

PageSpec == PageInit /\ [][PageNext]_vars

\* ------------------------------------------------------------------------
\* What the claims speak of, stated on the text itself
\* ------------------------------------------------------------------------
\* the 1-based number of the physical line the character at index i is on,
\* the line breaks of the text being at the indices in breaks
LineOf(breaks, i) == 1 + Cardinality({k \in breaks : k < i})

\* the numbers of the physical lines that are not blank
NonBlankLines(text) ==
    LET breaks == {k \in 1..Len(text) : text[k] = Newline}
    IN {LineOf(breaks, i) : i \in {k \in 1..Len(text) : text[k] \notin WhiteSpace}}

\* the header is the first line that is not blank
HeaderLineNumber(text) ==
    LET lines == NonBlankLines(text)
    IN CHOOSE h \in lines : \A l \in lines : h <= l

\* the physical line numbers of the data rows: the non-blank lines after
\* the header
DataLineNumbers(text) ==
    LET lines == NonBlankLines(text)
    IN IF lines = {} THEN {}
       ELSE lines \ {CHOOSE h \in lines : \A l \in lines : h <= l}

numberOfDataRows(text) == Cardinality(DataLineNumbers(text))

\* the k-th smallest element of a set of numbers
Nth(S, k) == CHOOSE x \in S : Cardinality({y \in S : y <= x}) = k

IsBatch == op \in {"parseBankCSV", "parsePositionCSV"}
HasError(r) == "_error" \in DOMAIN r

\* C1: parseBankCSV and parsePositionCSV classify every data row exactly
\* once: success and errors together have as many entries as the document
\* has data rows (non-blank lines after the header), allRows has one entry
\* per data row, and no row number is reported twice.
C1_EveryRowClassifiedOnce ==
    IsBatch =>
        /\ LET rows == numberOfDataRows(csvContent)
           IN /\ Len(result.success) + Len(result.errors) = rows
              /\ Len(result.allRows) = rows
        /\ Cardinality({i \in 1..Len(result.allRows) : HasError(result.allRows[i])})
               = Len(result.errors)
        /\ \A i, j \in 1..Len(result.errors) :
               result.errors[i].row = result.errors[j].row => i = j

\* a document with blank lines in which one row succeeded and one failed
C1_Witness ==
    /\ op = "parseBankCSV"
    /\ Len(result.success) >= 1
    /\ Len(result.errors) >= 1
    /\ Cardinality(NonBlankLines(csvContent)) < Len(Split(csvContent, Newline))

\* C2: the row number reported for a data row (in errors and as _rowNumber
\* in allRows) is the number of the physical line the row is on, the header
\* being line 1, also when blank lines come between the data lines.
C2_RowNumberIsPhysicalLine ==
    (IsBatch /\ NonBlankLines(csvContent) # {} /\ HeaderLineNumber(csvContent) = 1) =>
        /\ \A k \in 1..Len(result.allRows) :
               result.allRows[k]._rowNumber = Nth(DataLineNumbers(csvContent), k)
        /\ {result.errors[e].row : e \in 1..Len(result.errors)}
               = {Nth(DataLineNumbers(csvContent), k) :
                      k \in {n \in 1..Len(result.allRows) : HasError(result.allRows[n])}}

\* the rows csvToArray hands to the validators
RowsOf(text) == csvToArray(text)

\* whether the validator of the batch throws on the i-th of the rows
ValidatorThrows(rows, i) ==
    IF op = "parseBankCSV"
    THEN parseBankRow(rows[i], i + 1).threw
    ELSE parsePositionRow(rows[i], i + 1, result.bankId, result.rollsOver).threw

\* C3: the batch parsers never raise: every failure of a row validator is
\* caught and becomes exactly one {row, error} entry with a non-empty
\* message, and a result object is returned.
C3_NeverThrows ==
    IsBatch =>
        /\ ~result.raised
        /\ \A e \in 1..Len(result.errors) : result.errors[e].error # ""
        /\ LET rows == RowsOf(csvContent)
           IN \A i \in 1..Len(rows) :
                  Cardinality({e \in 1..Len(result.errors) : result.errors[e].row = i + 1})
                      = IF ValidatorThrows(rows, i) THEN 1 ELSE 0

\* both validators have thrown, on the second of two rows
C3_Witness ==
    /\ op = "parsePositionCSV"
    /\ Len(result.success) = 1
    /\ Len(result.errors) = 1
    /\ result.errors[1].row = 3

\* C4: an empty document, a white-space-only document and a document with
\* nothing but a header line give an empty row set and empty success,
\* errors and allRows.
C4_NoDataRowsGivesEmptyResult ==
    Cardinality(NonBlankLines(csvContent)) <= 1 =>
        /\ op = "csvToArray" => result = <<>>
        /\ IsBatch => /\ result.success = <<>>
                      /\ result.errors = <<>>
                      /\ result.allRows = <<>>
                      /\ ~result.raised

\* a header line followed by blank lines has been parsed
C4_Witness ==
    /\ op = "parseBankCSV"
    /\ Cardinality(NonBlankLines(csvContent)) = 1
    /\ Len(Split(csvContent, Newline)) = 3
    /\ result.allRows = <<>>

\* the text before the first line break
FirstLine(text) ==
    LET breaks == {i \in 1..Len(text) : text[i] = Newline} IN
    IF breaks = {} THEN text
    ELSE SubSeq(text, 1, (CHOOSE b \in breaks : \A c \in breaks : b <= c) - 1)

\* A doubled quote inside quotes leaves the quote state as it was and
\* every other quote toggles it, so a character that is not a quote is
\* outside the quoted regions exactly when an even number of quote
\* characters precede it.
QuotesBefore(line, i) == Cardinality({k \in 1..(i - 1) : line[k] = Quote})
OutsideQuotes(line, i) == QuotesBefore(line, i) % 2 = 0

\* the positions of the delimiter d outside the quoted regions
Unquoted(line, d) == {i \in 1..Len(line) : line[i] = d /\ OutsideQuotes(line, i)}

\* C5: detectDelimiter returns ';' exactly when the first line of the text
\* has strictly more semicolons than commas outside its quoted regions,
\* and ',' in every other case.
C5_DelimiterBySemicolonMajority ==
    op = "detectDelimiter" =>
        result = IF Cardinality(Unquoted(FirstLine(csvContent), Semicolon))
                        > Cardinality(Unquoted(FirstLine(csvContent), Comma))
                 THEN Semicolon ELSE Comma

\* a semicolon header with a quoted comma in it has been recognised
C5_Witness ==
    /\ op = "detectDelimiter"
    /\ result = Semicolon
    /\ \E i \in 1..Len(FirstLine(csvContent)) :
           FirstLine(csvContent)[i] = Comma /\ ~OutsideQuotes(FirstLine(csvContent), i)

\* The quote at index k belongs to a maximal run of quotes.  When the run
\* starts outside quotes its first quote opens a region; from then on the
\* quotes of the run pair up, the first of each pair standing for one
\* literal quote, and a quote left over closes the region.
RunStart(line, k) ==
    CHOOSE p \in 1..k :
        /\ \A q \in p..k : line[q] = Quote
        /\ p = 1 \/ line[p - 1] # Quote
RunEnd(line, k) ==
    CHOOSE p \in k..Len(line) :
        /\ \A q \in k..p : line[q] = Quote
        /\ p = Len(line) \/ line[p + 1] # Quote
IsLiteralQuote(line, k) ==
    LET first == RunStart(line, k) + (IF OutsideQuotes(line, RunStart(line, k)) THEN 1 ELSE 0)
    IN k >= first /\ (k - first) % 2 = 0 /\ k + 1 <= RunEnd(line, k)

\* the characters of the line at the positions of a set, in order
Pick(line, S) == [j \in 1..Cardinality(S) |-> line[Nth(S, j)]]

\* the n-th field of a line: what stands between the (n-1)-th and the n-th
\* unquoted delimiter, without the quotes that only toggle, trimmed
FieldOf(line, d, n) ==
    LET cuts == Unquoted(line, d)
        from == IF n = 1 THEN 0 ELSE Nth(cuts, n - 1)
        to == IF n > Cardinality(cuts) THEN Len(line) + 1 ELSE Nth(cuts, n)
        kept == {k \in (from + 1)..(to - 1) : line[k] # Quote \/ IsLiteralQuote(line, k)}
    IN Trim(Pick(line, kept))

\* C6: tokenizing a line with delimiter d yields 1 + (number of d outside
\* quoted regions) fields; a d inside quotes stays in the field, a doubled
\* quote inside quotes gives one literal quote, every other quote gives
\* nothing, and every field is trimmed.
C6_TokenizerFields ==
    op = "tokenize" =>
        /\ Len(result.values) = 1 + Cardinality(Unquoted(result.line, result.delimiter))
        /\ \A n \in 1..Len(result.values) :
               result.values[n] = FieldOf(result.line, result.delimiter, n)

\* a line with a quoted delimiter and a doubled quote has been tokenized
C6_Witness ==
    /\ op = "tokenize"
    /\ Len(result.values) = 2
    /\ \E n \in 1..2 : Includes(result.values[n], result.delimiter)
    /\ \E k \in 1..Len(result.line) :
           result.line[k] = Quote /\ IsLiteralQuote(result.line, k)

\* the header names and the values csvToArray works with
HeaderNames(text) == parseCSVHeader(DocumentLines(text)[1], detectDelimiter(text))
DataLines(text) == SelectSeq(Tail(DocumentLines(text)), LAMBDA l : Trim(l) # <<>>)
ValuesOf(text, k) == TokenizeLine(DataLines(text)[k], detectDelimiter(text))

\* the values of every data line
AllValues(text) == [k \in 1..Len(DataLines(text)) |-> ValuesOf(text, k)]

\* the i-th of the values of a line, '' when the line has fewer values
ValueAt(values, i) == IF i <= Len(values) THEN values[i] ELSE <<>>

NameSet(names) == {names[i] : i \in 1..Len(names)}

\* C7 as claimed: every RawRow has exactly the header's names as keys and
\* the i-th header name always maps to the i-th tokenized value ('' when
\* the line has fewer values; surplus values are dropped).
C7_IthNameMapsToIthValue ==
    op = "csvToArray" =>
        LET names == HeaderNames(csvContent)
            values == AllValues(csvContent)
        IN \A k \in 1..Len(result) :
               /\ DOMAIN result[k] = NameSet(names)
               /\ \A i \in 1..Len(names) : result[k][names[i]] = ValueAt(values[k], i)

\* C7 as amended: every RawRow has exactly the header's names as keys, and
\* each name maps to the value at the position of the last header column
\* bearing that name ('' when the line has fewer values; surplus values
\* are dropped).
C7_LastColumnOfANameWins ==
    op = "csvToArray" =>
        LET names == HeaderNames(csvContent)
            values == AllValues(csvContent)
        IN /\ Len(result) = Len(values)
           /\ \A k \in 1..Len(result) :
                  /\ DOMAIN result[k] = NameSet(names)
                  /\ \A i \in 1..Len(names) :
                         (\A j \in (i + 1)..Len(names) : names[j] # names[i])
                         => result[k][names[i]] = ValueAt(values[k], i)

\* a line with fewer values than columns under a header that repeats a name
C7_Witness ==
    /\ op = "csvToArray"
    /\ Len(result) = 1
    /\ Len(ValuesOf(csvContent, 1)) < Len(HeaderNames(csvContent))
    /\ Cardinality(NameSet(HeaderNames(csvContent))) < Len(HeaderNames(csvContent))

\* the text of a field as the claim describes it
TextOfCell(cell) ==
    IF cell.type = "string" THEN cell.text
    ELSE IF cell.type = "number" THEN NumberToString(cell.num)
    ELSE IF cell.type = "date" THEN DateToIso(cell.date)
    ELSE <<>>

NeedsQuoting(text) == \E i \in 1..Len(text) : text[i] \in {Comma, Quote}

\* the text with each quote doubled: the character at index i moves right
\* by the number of quotes before it, and a quote is followed by a second
Doubled(text) ==
    LET at(i) == i + QuotesBefore(text, i)
        width(i) == IF text[i] = Quote THEN 2 ELSE 1
        n == Len(text) + Cardinality({i \in 1..Len(text) : text[i] = Quote})
    IN [j \in 1..n |-> text[CHOOSE i \in 1..Len(text) : at(i) <= j /\ j < at(i) + width(i)]]

QuotedField(cell) ==
    IF NeedsQuoting(TextOfCell(cell))
    THEN <<Quote>> \o Doubled(TextOfCell(cell)) \o <<Quote>>
    ELSE TextOfCell(cell)

ExpectedLine(row, headers) ==
    Join([i \in 1..Len(headers) |->
             QuotedField(IF headers[i] \in DOMAIN row THEN row[headers[i]] ELSE UndefinedCell)],
         Comma)

\* C8: arrayToCSV emits the header names joined by ',' first and then one
\* line per row, the fields joined by ',' in header order; a field is
\* wrapped in quotes with its quotes doubled exactly when its text has a
\* comma or a quote, verbatim otherwise; undefined and null give ''.
C8_SerializerQuoting ==
    op = "arrayToCSV" =>
        LET lines == Split(result, Newline) IN
        /\ lines[1] = Join(input.headers, Comma)
        /\ Len(lines) = IF input.data = <<>> THEN 2 ELSE 1 + Len(input.data)
        /\ \A k \in 1..Len(input.data) :
               lines[k + 1] = ExpectedLine(input.data[k], input.headers)

\* a row with a quote in one field and an undefined other field was written
C8_Witness ==
    /\ op = "arrayToCSV"
    /\ \E k \in 1..Len(input.data) :
           /\ \E h \in DOMAIN input.data[k] :
                  /\ input.data[k][h].type = "string"
                  /\ Includes(input.data[k][h].text, Quote)
           /\ \E h \in DOMAIN input.data[k] : input.data[k][h].type \in {"undefined", "null"}

IsExport == op \in {"exportBanksToCSV", "exportPositionsToCSV"}

\* C9 as claimed: exportBanksToCSV and exportPositionsToCSV called with an
\* empty list still produce a document: the header line and a line break.
C9_EmptyExportWritesHeader ==
    (IsExport /\ input.data = <<>>) =>
        /\ download # NoFile
        /\ download.content = Join(input.headers, Comma) \o <<Newline>>

\* C9 as amended: arrayToCSV called with an empty list returns the header
\* line followed by a line break; exportBanksToCSV and exportPositionsToCSV
\* called with an empty list show an alert and write no document.
C9_EmptySerializationWritesHeader ==
    /\ (op = "arrayToCSV" /\ input.data = <<>>) =>
           result = Join(input.headers, Comma) \o <<Newline>>
    /\ (IsExport /\ input.data = <<>>) => (download = NoFile /\ alerted # NoAlert)
    /\ (IsExport /\ input.data # <<>>) => (download # NoFile /\ alerted = NoAlert)

\* an export of no banks has ended with the alert
C9_Witness ==
    /\ op = "exportBanksToCSV"
    /\ input.data = <<>>
    /\ alerted = "Keine Banken zum Exportieren vorhanden"

\* a field value of the round-trip claim: no white space at either end and
\* no line break (the texts of the model are letters, spaces, commas and
\* quotes)
IsPlainValue(text) == Trim(text) = text /\ ~Includes(text, Newline)

\* the exported file has been read back and parsed by csvToArray
ReadBack ==
    /\ op = "csvToArray"
    /\ input.kind \in {"banks", "positions"}
    /\ download # NoFile
    /\ csvContent = download.content

\* the text of an optional field: '' when it is undefined
TextOrNone(v) == IF v = Undefined THEN <<>> ELSE v

\* C10: a field value without white space at its ends and without a line
\* break, serialized by arrayToCSV and parsed back by csvToArray, comes
\* back as the same string, whatever commas and quotes it holds.
C10_QuotingRoundTrip ==
    ReadBack =>
        /\ Len(result) = Len(input.data)
        /\ \A k \in 1..Len(result) :
               /\ IsPlainValue(TextOrNone(input.data[k].notes))
                      => result[k][S_notes] = TextOrNone(input.data[k].notes)
               /\ (input.kind = "banks" /\ IsPlainValue(input.data[k].name))
                      => result[k][S_name] = input.data[k].name

\* a bank whose notes hold a comma and a quote has come back
C10_Witness ==
    /\ ReadBack
    /\ Len(result) = 1
    /\ Includes(result[1][S_notes], Comma)
    /\ Includes(result[1][S_notes], Quote)
    /\ result[1][S_notes] = input.data[1].notes

\* ------------------------------------------------------------------------
\* Export followed by import
\* ------------------------------------------------------------------------
\* the exported file has been read back and parsed by the batch parser of
\* the same kind of record
Reimported ==
    /\ download # NoFile
    /\ csvContent = download.content
    /\ \/ op = "parseBankCSV" /\ input.kind = "banks"
       \/ op = "parsePositionCSV" /\ input.kind = "positions"

\* a text as an import stores it: not empty, no white space at its ends
IsStoredText(t) == t # <<>> /\ IsPlainValue(t)

\* a number that is present and not negative
IsNonNegative(n) == n.tag = "number" /\ ~(n.neg /\ n.mant > 0)

\* the data-model domain of a Bank and of a Position
InBankDomain(b) ==
    /\ IsStoredText(b.name)
    /\ b.notes = Undefined \/ IsStoredText(b.notes)

InPositionDomain(p) ==
    /\ IsStoredText(p.isin) /\ toUpperCase(p.isin) = p.isin
    /\ IsStoredText(p.ticker) /\ toUpperCase(p.ticker) = p.ticker
    /\ p.assetType \in {S_stock, S_etf, S_bond}
    /\ p.purchaseDate.tag = "date"
    /\ IsPositive(p.quantity)
    /\ IsPositive(p.purchasePrice)
    /\ p.currency \in {S_EUR, S_USD}
    /\ p.notes = Undefined \/ IsStoredText(p.notes)
    /\ p.assetType = S_bond => IsPositive(p.nominalValue) /\ IsNonNegative(p.couponRate)
    /\ p.assetType # S_bond =>
           /\ p.nominalValue = UndefinedNumber \/ IsPositive(p.nominalValue)
           /\ p.couponRate = UndefinedNumber \/ IsNonNegative(p.couponRate)

InDomain(record) ==
    IF input.kind = "banks" THEN InBankDomain(record) ELSE InPositionDomain(record)

\* equality of two records field by field, id, bankId and createdAt aside
SameRecord(a, b) ==
    IF input.kind = "banks"
    THEN a.name = b.name /\ a.notes = b.notes
    ELSE \A f \in {"isin", "ticker", "assetType", "purchaseDate", "quantity",
                   "purchasePrice", "currency", "notes", "nominalValue", "couponRate"} :
             a[f] = b[f]

\* C11: exporting a non-empty list of records of the data-model domain and
\* importing the exported text gives no error and a success list equal to
\* the exported records, in order and field by field (id, bankId and
\* createdAt aside).
C11_ExportImportIdentity ==
    (Reimported /\ \A k \in 1..Len(input.data) : InDomain(input.data[k])) =>
        /\ result.errors = <<>>
        /\ Len(result.success) = Len(input.data)
        /\ \A k \in 1..Len(result.success) : SameRecord(result.success[k], input.data[k])

\* ------------------------------------------------------------------------
\* The row validators
\* ------------------------------------------------------------------------
\* a value that is absent or holds nothing but white space
IsBlankValue(v) == v = Undefined \/ \A i \in 1..Len(v) : v[i] \in WhiteSpace

\* the rows (counted from 1) of a document whose name is absent or blank
RowsWithoutName(rows) == {i \in 1..Len(rows) : IsBlankValue(GetProp(rows[i], S_name))}

\* the notes a bank row is to give: the trimmed text, absent when empty
ExpectedNotes(row) ==
    IF IsBlankValue(GetProp(row, S_notes)) THEN Undefined ELSE Trim(GetProp(row, S_notes))

\* C12: a bank row fails exactly when its name is absent or blank, with
\* the missing-name message; every other row succeeds with the trimmed name
\* and the trimmed notes, the notes being absent when empty.  The example
\* document gives one success (Acme Bank, Main account) and one error in
\* row 3.
C12_BankRowFailsOnlyWithoutName ==
    op = "parseBankCSV" =>
        LET rows == RowsOf(csvContent)
            bad == RowsWithoutName(rows)
            good == (1..Len(rows)) \ bad
        IN /\ Len(result.errors) = Cardinality(bad)
           /\ \A k \in 1..Len(result.errors) :
                  result.errors[k] = [row |-> Nth(bad, k) + 1,
                                      error |-> "Bank-Name ist ein Pflichtfeld"]
           /\ Len(result.success) = Cardinality(good)
           /\ \A k \in 1..Len(result.success) :
                  /\ result.success[k].name = Trim(GetProp(rows[Nth(good, k)], S_name))
                  /\ result.success[k].name # <<>>
                  /\ result.success[k].notes = ExpectedNotes(rows[Nth(good, k)])
           /\ csvContent = ExampleBankDoc =>
                  /\ Len(result.success) = 1
                  /\ result.success[1].name = <<"A", "c", "m", "e", " ", "B", "a", "n", "k">>
                  /\ result.success[1].notes = <<"M", "a", "i", "n", " ", "a", "c", "c", "o", "u", "n", "t">>
                  /\ Len(result.errors) = 1
                  /\ result.errors[1].row = 3

\* the example document has been parsed
C12_Witness ==
    /\ op = "parseBankCSV"
    /\ csvContent = ExampleBankDoc
    /\ Len(result.success) = 1
    /\ Len(result.errors) = 1

\* the text a check of the position validator looks at: the trimmed value,
\* empty when the row has no such column
FieldText(row, key) ==
    IF GetProp(row, key) = Undefined THEN <<>> ELSE Trim(GetProp(row, key))

\* the row says bond (in any letter case)
IsBondRow(row) == toLowerCase(FieldText(row, S_assetType)) = S_bond

\* the checks of a position row in the order the claim gives them, each
\* with whether the row violates it and the message that reports it
PositionChecks(row, rollsOver) ==
    <<[violated |-> FieldText(row, S_isin) = <<>>,
       message |-> "ISIN ist ein Pflichtfeld"],
      [violated |-> FieldText(row, S_ticker) = <<>>,
       message |-> "Ticker ist ein Pflichtfeld"],
      [violated |-> FieldText(row, S_assetType) = <<>>,
       message |-> "Asset-Typ ist ein Pflichtfeld"],
      [violated |-> FieldText(row, S_purchaseDate) = <<>>,
       message |-> "Kaufdatum ist ein Pflichtfeld"],
      [violated |-> FieldText(row, S_quantity) = <<>>,
       message |-> "Anzahl ist ein Pflichtfeld"],
      [violated |-> FieldText(row, S_purchasePrice) = <<>>,
       message |-> "Kaufpreis ist ein Pflichtfeld"],
      [violated |-> FieldText(row, S_currency) = <<>>,
       message |-> "Währung ist ein Pflichtfeld"],
      [violated |-> toLowerCase(FieldText(row, S_assetType)) \notin {S_stock, S_etf, S_bond},
       message |-> "Asset-Typ muss 'stock', 'etf' oder 'bond' sein"],
      [violated |-> toUpperCase(FieldText(row, S_currency)) \notin {S_EUR, S_USD},
       message |-> "Währung muss 'EUR' oder 'USD' sein"],
      [violated |-> ~IsPositive(parseFloat(FieldText(row, S_quantity))),
       message |-> "Anzahl muss eine positive Zahl sein"],
      [violated |-> ~IsPositive(parseFloat(FieldText(row, S_purchasePrice))),
       message |-> "Kaufpreis muss eine positive Zahl sein"],
      [violated |-> IsInvalidDate(NewDate(FieldText(row, S_purchaseDate), rollsOver)),
       message |-> "Kaufdatum hat ungültiges Format (erwartetes Format: YYYY-MM-DD)"],
      [violated |-> IsBondRow(row) /\ FieldText(row, S_nominalValue) = <<>>,
       message |-> "Nominalwert ist für Anleihen ein Pflichtfeld"],
      [violated |-> IsBondRow(row) /\ ~IsPositive(parseFloat(FieldText(row, S_nominalValue))),
       message |-> "Nominalwert muss eine positive Zahl sein"],
      [violated |-> IsBondRow(row) /\ FieldText(row, S_couponRate) = <<>>,
       message |-> "Kupon ist für Anleihen ein Pflichtfeld"],
      [violated |-> IsBondRow(row) /\ ~IsNonNegative(parseFloat(FieldText(row, S_couponRate))),
       message |-> "Kupon muss eine nicht-negative Zahl sein"]>>

\* the checks a row violates, by their place in the order
Violated(row, rollsOver) ==
    LET checks == PositionChecks(row, rollsOver)
    IN {c \in 1..Len(checks) : checks[c].violated}

\* the message of the first check a row violates
FirstViolation(row, rollsOver) ==
    PositionChecks(row, rollsOver)[Nth(Violated(row, rollsOver), 1)].message

\* the error entries reported for the i-th row
ErrorsOfRow(i) == {e \in 1..Len(result.errors) : result.errors[e].row = i + 1}

\* C13: a position row that violates several checks is reported with
\* exactly one error, that of the first violated check in the order: the
\* presence of isin, ticker, assetType, purchaseDate, quantity,
\* purchasePrice, currency, then the assetType domain, the currency domain,
\* the quantity, the purchasePrice, the purchaseDate, then the bond-only
\* nominalValue and couponRate checks; a row that violates none has no error.
C13_FirstViolatedCheckIsReported ==
    op = "parsePositionCSV" =>
        LET rows == RowsOf(csvContent) IN
        \A i \in 1..Len(rows) :
            LET violated == Violated(rows[i], result.rollsOver)
            IN IF violated = {} THEN ErrorsOfRow(i) = {}
               ELSE /\ Cardinality(ErrorsOfRow(i)) = 1
                    /\ \A e \in ErrorsOfRow(i) :
                           result.errors[e].error = FirstViolation(rows[i], result.rollsOver)

\* a row without a currency and with an assetType outside the domain has
\* been reported for its missing currency
C13_Witness ==
    /\ op = "parsePositionCSV"
    /\ Len(RowsOf(csvContent)) = 1
    /\ {7, 8} \subseteq Violated(RowsOf(csvContent)[1], result.rollsOver)
    /\ FieldText(RowsOf(csvContent)[1], S_assetType) # <<>>
    /\ Len(result.errors) = 1
    /\ result.errors[1].error = "Währung ist ein Pflichtfeld"

\* the place of a letter in the alphabet, whatever its case; 0 for any
\* other character
LetterIndex(c) ==
    IF IndexIn(LowerCase, c) # 0 THEN IndexIn(LowerCase, c) ELSE IndexIn(UpperCase, c)

\* two texts that differ in the case of their letters at most
SameIgnoringCase(t, u) ==
    /\ Len(t) = Len(u)
    /\ \A i \in 1..Len(t) :
           t[i] = u[i] \/ (LetterIndex(t[i]) # 0 /\ LetterIndex(t[i]) = LetterIndex(u[i]))

HasNoLowerCase(t) == \A i \in 1..Len(t) : IndexIn(LowerCase, t[i]) = 0
HasNoUpperCase(t) == \A i \in 1..Len(t) : IndexIn(UpperCase, t[i]) = 0

\* the rows (counted from 1) of the parsed document that were accepted
AcceptedRows == {i \in 1..Len(RowsOf(csvContent)) : ErrorsOfRow(i) = {}}

\* C14: an accepted position row has an assetType that is stock, etf or
\* bond and a currency that is EUR or USD, in any letter case; the record
\* carries isin, ticker and currency in upper case and assetType in lower
\* case.  The example line (us0378331005, aapl, STOCK, usd) is accepted as
\* US0378331005, AAPL, stock, USD.
C14_DomainsAndCaseNormalisation ==
    op = "parsePositionCSV" =>
        LET rows == RowsOf(csvContent)
            good == AcceptedRows
        IN /\ Len(result.success) = Cardinality(good)
           /\ \A k \in 1..Len(result.success) :
                  LET row == rows[Nth(good, k)]
                      rec == result.success[k]
                  IN /\ rec.assetType \in {S_stock, S_etf, S_bond}
                     /\ SameIgnoringCase(rec.assetType, FieldText(row, S_assetType))
                     /\ rec.currency \in {S_EUR, S_USD}
                     /\ SameIgnoringCase(rec.currency, FieldText(row, S_currency))
                     /\ SameIgnoringCase(rec.isin, FieldText(row, S_isin))
                     /\ HasNoLowerCase(rec.isin)
                     /\ SameIgnoringCase(rec.ticker, FieldText(row, S_ticker))
                     /\ HasNoLowerCase(rec.ticker)
                     /\ HasNoUpperCase(rec.assetType)
           /\ csvContent = ExamplePositionDoc =>
                  /\ result.errors = <<>>
                  /\ Len(result.success) = 1
                  /\ result.success[1].isin = <<"U", "S", "0", "3", "7", "8", "3", "3", "1", "0", "0", "5">>
                  /\ result.success[1].ticker = <<"A", "A", "P", "L">>
                  /\ result.success[1].assetType = S_stock
                  /\ result.success[1].currency = S_USD

\* the example line in mixed letter case has been accepted
C14_Witness ==
    /\ op = "parsePositionCSV"
    /\ csvContent = ExamplePositionDoc
    /\ Len(result.success) = 1
    /\ result.success[1].assetType # FieldText(RowsOf(csvContent)[1], S_assetType)

\* the whole text is a decimal numeral: an optional sign, then digits with
\* at most one point among them and at least one digit
IsDecimalText(t) ==
    LET body == IF t # <<>> /\ t[1] \in {"-", "+"} THEN SubSeq(t, 2, Len(t)) ELSE t
    IN /\ \A i \in 1..Len(body) : IsDigit(body[i]) \/ body[i] = "."
       /\ Cardinality({i \in 1..Len(body) : body[i] = "."}) <= 1
       /\ \E i \in 1..Len(body) : IsDigit(body[i])

\* C15: an accepted position row has a quantity and a purchasePrice whose
\* whole trimmed text is a number greater than zero, and the record carries
\* exactly those values; digits followed by other characters, or a decimal
\* comma, make the row an error.
C15_WholeTextIsAPositiveNumber ==
    op = "parsePositionCSV" =>
        LET rows == RowsOf(csvContent)
            good == AcceptedRows
        IN \A k \in 1..Len(result.success) :
               LET row == rows[Nth(good, k)]
                   rec == result.success[k]
               IN /\ IsDecimalText(FieldText(row, S_quantity))
                  /\ IsDecimalText(FieldText(row, S_purchasePrice))
                  /\ IsPositive(rec.quantity)
                  /\ IsPositive(rec.purchasePrice)
                  /\ rec.quantity = parseFloat(FieldText(row, S_quantity))
                  /\ rec.purchasePrice = parseFloat(FieldText(row, S_purchasePrice))

\* the text is YYYY-MM-DD and names a day the calendar has
IsCalendarDateText(t) ==
    /\ IsIsoDateText(t)
    /\ LET y == ScanDigits(t, 1, 0, 0).mant
           m == ScanDigits(t, 6, 0, 0).mant
           d == ScanDigits(t, 9, 0, 0).mant
       IN m \in 1..12 /\ d \in 1..DaysInMonth(y, m)

\* the calendar date a text YYYY-MM-DD names
CalendarDateOf(t) ==
    [tag |-> "date", y |-> ScanDigits(t, 1, 0, 0).mant,
     m |-> ScanDigits(t, 6, 0, 0).mant, d |-> ScanDigits(t, 9, 0, 0).mant]

\* C16: an accepted position row has a purchaseDate text of the form
\* YYYY-MM-DD that names a valid calendar date, and the record carries that
\* date; every other text makes the row an error.
C16_PurchaseDateIsACalendarDate ==
    op = "parsePositionCSV" =>
        LET rows == RowsOf(csvContent)
            good == AcceptedRows
        IN \A k \in 1..Len(result.success) :
               LET text == FieldText(rows[Nth(good, k)], S_purchaseDate)
               IN /\ IsCalendarDateText(text)
                  /\ result.success[k].purchaseDate = CalendarDateOf(text)

\* the messages that name nominalValue, and those that name couponRate
NominalValueMessages ==
    {"Nominalwert ist für Anleihen ein Pflichtfeld", "Nominalwert muss eine positive Zahl sein"}
CouponRateMessages ==
    {"Kupon ist für Anleihen ein Pflichtfeld", "Kupon muss eine nicht-negative Zahl sein"}

\* a nominalValue text that is absent, unparsable or not positive, and a
\* couponRate text that is absent, unparsable or negative
BadNominalValue(row) == ~IsPositive(parseFloat(FieldText(row, S_nominalValue)))
BadCouponRate(row) == ~IsNonNegative(parseFloat(FieldText(row, S_couponRate)))

\* every bond in success carries a nominalValue > 0 and a couponRate >= 0
BondsAreComplete ==
    \A k \in 1..Len(result.success) :
        result.success[k].assetType = S_bond =>
            /\ IsPositive(result.success[k].nominalValue)
            /\ IsNonNegative(result.success[k].couponRate)

\* C17 as stated: every bond in success is complete, and a bond row with a
\* bad nominalValue, or with a bad couponRate, is always an error that names
\* that field.
C17_BondErrorNamesTheField ==
    op = "parsePositionCSV" =>
        /\ BondsAreComplete
        /\ LET rows == RowsOf(csvContent) IN
           \A i \in 1..Len(rows) :
               /\ (IsBondRow(rows[i]) /\ BadNominalValue(rows[i])) =>
                      /\ ErrorsOfRow(i) # {}
                      /\ \A e \in ErrorsOfRow(i) : result.errors[e].error \in NominalValueMessages
               /\ (IsBondRow(rows[i]) /\ ~BadNominalValue(rows[i]) /\ BadCouponRate(rows[i])) =>
                      /\ ErrorsOfRow(i) # {}
                      /\ \A e \in ErrorsOfRow(i) : result.errors[e].error \in CouponRateMessages

\* C17, amended: every bond in success is complete; a bond row with a bad
\* nominalValue or a bad couponRate is always an error, and the error names
\* nominalValue, or couponRate, when that is the first check the row
\* violates; a bond row with couponRate 0 that violates no check is accepted
\* with couponRate 0.
C17_BondRowsAreCompleteOrErrors ==
    op = "parsePositionCSV" =>
        /\ BondsAreComplete
        /\ LET rows == RowsOf(csvContent)
               good == AcceptedRows
           IN
           \A i \in 1..Len(rows) :
               LET violated == Violated(rows[i], result.rollsOver) IN
               /\ (IsBondRow(rows[i]) /\ (BadNominalValue(rows[i]) \/ BadCouponRate(rows[i]))) =>
                      ErrorsOfRow(i) # {}
               /\ (IsBondRow(rows[i]) /\ BadNominalValue(rows[i])
                       /\ violated \cap (1..12) = {}) =>
                      \A e \in ErrorsOfRow(i) : result.errors[e].error \in NominalValueMessages
               /\ (IsBondRow(rows[i]) /\ BadCouponRate(rows[i])
                       /\ violated \cap (1..14) = {}) =>
                      \A e \in ErrorsOfRow(i) : result.errors[e].error \in CouponRateMessages
               /\ (IsBondRow(rows[i]) /\ violated = {}
                       /\ IsZero(parseFloat(FieldText(rows[i], S_couponRate)))) =>
                      /\ i \in good
                      /\ IsZero(result.success[Cardinality({g \in good : g <= i})].couponRate)

\* of two bond rows, the complete one was accepted and the one without a
\* nominalValue was reported
C17_Witness ==
    /\ op = "parsePositionCSV"
    /\ Len(result.success) = 1
    /\ result.success[1].assetType = S_bond
    /\ Len(result.errors) = 1
    /\ result.errors[1].error = "Nominalwert ist für Anleihen ein Pflichtfeld"

\* the row says stock or etf (in any letter case)
IsStockOrEtfRow(row) == toLowerCase(FieldText(row, S_assetType)) \in {S_stock, S_etf}

\* the seven required fields of the row are valid: none of the presence,
\* domain, number and date checks is violated
RequiredFieldsValid(row, rollsOver) == Violated(row, rollsOver) \cap (1..12) = {}

\* the place of the accepted row i in the success list
PlaceInSuccess(i) == Cardinality({g \in AcceptedRows : g <= i})

\* C18: a stock or etf row whose seven required fields are valid never fails
\* for its nominalValue or couponRate: it succeeds, and an empty or
\* unparsable nominalValue or couponRate is absent from the record; a bond
\* row with valid required fields and an empty nominalValue is an error
\* naming nominalValue.
C18_OptionalFieldsNeverFailAStockRow ==
    op = "parsePositionCSV" =>
        LET rows == RowsOf(csvContent) IN
        \A i \in 1..Len(rows) :
            RequiredFieldsValid(rows[i], result.rollsOver) =>
                /\ IsStockOrEtfRow(rows[i]) =>
                       /\ ErrorsOfRow(i) = {}
                       /\ isNaN(parseFloat(FieldText(rows[i], S_nominalValue))) =>
                              result.success[PlaceInSuccess(i)].nominalValue = UndefinedNumber
                       /\ isNaN(parseFloat(FieldText(rows[i], S_couponRate))) =>
                              result.success[PlaceInSuccess(i)].couponRate = UndefinedNumber
                /\ (IsBondRow(rows[i]) /\ FieldText(rows[i], S_nominalValue) = <<>>) =>
                       /\ Cardinality(ErrorsOfRow(i)) = 1
                       /\ \A e \in ErrorsOfRow(i) :
                              result.errors[e].error \in NominalValueMessages

\* a stock row with an unparsable nominalValue has been accepted without it
C18_Witness ==
    /\ op = "parsePositionCSV"
    /\ Len(RowsOf(csvContent)) = 1
    /\ IsStockOrEtfRow(RowsOf(csvContent)[1])
    /\ FieldText(RowsOf(csvContent)[1], S_nominalValue) # <<>>
    /\ Len(result.success) = 1
    /\ result.success[1].nominalValue = UndefinedNumber

\* C19: every Position in success, whatever its assetType, has a
\* nominalValue that is absent or a positive number and a couponRate that
\* is absent or a non-negative number.
C19_OptionalNumbersAreInDomain ==
    op = "parsePositionCSV" =>
        \A k \in 1..Len(result.success) :
            /\ result.success[k].nominalValue = UndefinedNumber
                   \/ IsPositive(result.success[k].nominalValue)
            /\ result.success[k].couponRate = UndefinedNumber
                   \/ IsNonNegative(result.success[k].couponRate)

\* the properties of a Position the parser may give it
PositionFields ==
    {"bankId", "isin", "ticker", "assetType", "purchaseDate", "quantity", "purchasePrice",
     "currency", "notes", "nominalValue", "couponRate", "createdAt"}

\* C20: every Position that parsePositionCSV produces, in success and in
\* allRows, has the bankId the caller supplied and no identifier, whatever
\* the document holds, a column named bankId or id included.
C20_BankIdIsTheCallers ==
    op = "parsePositionCSV" =>
        /\ \A k \in 1..Len(result.success) :
               /\ result.success[k].bankId = result.bankId
               /\ DOMAIN result.success[k] = PositionFields
        /\ \A k \in 1..Len(result.allRows) :
               /\ result.allRows[k].bankId = result.bankId
               /\ DOMAIN result.allRows[k] \subseteq PositionFields \cup {"_rowNumber", "_error"}

\* a document with the columns bankId and id has been parsed, one row
\* accepted and one reported
C20_Witness ==
    /\ op = "parsePositionCSV"
    /\ csvContent \in ForeignKeyDocs
    /\ Len(result.success) = 1
    /\ Len(result.errors) = 1
    /\ \A i \in 1..2 : GetProp(RowsOf(csvContent)[i], S_bankId) = <<"9">>

\* ------------------------------------------------------------------------
\* The three views of a batch
\* ------------------------------------------------------------------------
\* the places in allRows of the entries without, and with, an error
RowsWithoutError == {k \in 1..Len(result.allRows) : ~HasError(result.allRows[k])}
RowsWithError == {k \in 1..Len(result.allRows) : HasError(result.allRows[k])}

\* C21: the three views of parseBankCSV and parsePositionCSV stay parallel:
\* allRows has one entry per data row, in order, with _rowNumber 2, 3, ...,
\* n+1; its entries without _error are, in order, the records of success;
\* its entries with _error are, in order, the entries of errors, with the
\* same row number and message; errors is strictly increasing in row.
C21_ViewsStayParallel ==
    IsBatch =>
        /\ Len(result.allRows) = numberOfDataRows(csvContent)
        /\ \A k \in 1..Len(result.allRows) : result.allRows[k]._rowNumber = k + 1
        /\ Len(result.success) = Cardinality(RowsWithoutError)
        /\ \A j \in 1..Len(result.success) :
               result.allRows[Nth(RowsWithoutError, j)]
                   = result.success[j] @@ [_rowNumber |-> Nth(RowsWithoutError, j) + 1]
        /\ Len(result.errors) = Cardinality(RowsWithError)
        /\ \A j \in 1..Len(result.errors) :
               /\ result.errors[j].row = result.allRows[Nth(RowsWithError, j)]._rowNumber
               /\ result.errors[j].error = result.allRows[Nth(RowsWithError, j)]._error
        /\ \A i, j \in 1..Len(result.errors) :
               i < j => result.errors[i].row < result.errors[j].row

\* a bank document whose first row was accepted and whose second row was
\* reported
C21_Witness ==
    /\ op = "parseBankCSV"
    /\ Len(result.allRows) = 2
    /\ ~HasError(result.allRows[1])
    /\ HasError(result.allRows[2])
    /\ result.errors[1].row = 3


\* ------------------------------------------------------------------------
\* The two tokenizers
\* ------------------------------------------------------------------------
\* C23: parseCSVHeader and the tokenizer inlined in csvToArray return the
\* same ordered list of fields for every line and either delimiter.
C23_TokenizersAgree ==
    /\ op = "parseCSVHeader" =>
           result.headers = TokenizeLine(result.line, result.delimiter)
    /\ op = "tokenize" =>
           result.values = parseCSVHeader(result.line, result.delimiter)

\* a line with a delimiter inside quotes, or with a doubled quote inside
\* quotes, was tokenized
C23_Witness ==
    \/ /\ op = "parseCSVHeader"
       /\ result.delimiter = Semicolon
       /\ result.line = <<Quote, "a", ";", "b", Quote, ",", "b">>
       /\ result.headers = << <<"a", ";", "b", ",", "b">> >>
    \/ /\ op = "tokenize"
       /\ result.line = <<Quote, Quote, Quote>>
       /\ result.values = << <<Quote>> >>


\* ------------------------------------------------------------------------
\* Rows do not influence each other
\* ------------------------------------------------------------------------
\* the document with every data row but one taken out: the lines up to the
\* header (line h) as they are, then the line (line l) of that data row
RowAlone(lines, h, l) ==
    Join(SubSeq(lines, 1, h), Newline) \o <<Newline>> \o lines[l]

\* the batch parser of the last operation applied to another document
ParseAgain(text) ==
    IF op = "parseBankCSV" THEN parseBankCSV(text)
    ELSE parsePositionCSV(text, result.bankId, result.rollsOver)

\* an allRows entry without its place in the document
Content(entry) == [f \in (DOMAIN entry) \ {"_rowNumber"} |-> entry[f]]

\* C24: a failing row never changes the outcome of another row: whether a
\* data row is a success or an error, and its record or message, is what the
\* parser gives for the document that holds this row alone, and every data
\* row of the document is processed.
C24_RowsAreIndependent ==
    IsBatch =>
        LET data == DataLineNumbers(csvContent)
            lines == Split(csvContent, Newline)
            h == HeaderLineNumber(csvContent)
        IN /\ Len(result.allRows) = Cardinality(data)
           /\ \A k \in 1..Cardinality(data) :
                  LET alone == ParseAgain(RowAlone(lines, h, Nth(data, k))) IN
                  /\ Len(alone.allRows) = 1
                  /\ Content(alone.allRows[1]) = Content(result.allRows[k])
                  /\ (alone.errors = <<>>) = ~HasError(result.allRows[k])
                  /\ (alone.success = <<>>) = HasError(result.allRows[k])

\* a row that failed is followed by a row that was accepted
C24_Witness ==
    /\ IsBatch
    /\ Len(result.allRows) >= 2
    /\ HasError(result.allRows[1])
    /\ ~HasError(result.allRows[2])
    /\ Len(result.success) = 1


\* ------------------------------------------------------------------------
\* The columns of an exported row
\* ------------------------------------------------------------------------
\* an optional text or number as the claim renders it: empty exactly when
\* it is absent
PresentText(v) == IF v = Undefined THEN Str(<<>>) ELSE Str(v)
PresentNumber(n) == IF n = UndefinedNumber THEN Str(<<>>) ELSE Num(n)

\* the cells of an exported record in the fixed column order
ClaimedCells(record) ==
    IF input.kind = "banks"
    THEN <<Str(record.name), PresentText(record.notes)>>
    ELSE <<Str(record.isin), Str(record.ticker), Str(record.assetType),
           DateCell(record.purchaseDate), Num(record.quantity), Num(record.purchasePrice),
           Str(record.currency), PresentText(record.notes),
           PresentNumber(record.nominalValue), PresentNumber(record.couponRate)>>

\* C26: in exported rows the columns appear in the fixed order (bank: name,
\* notes; position: isin, ticker, assetType, purchaseDate, quantity,
\* purchasePrice, currency, notes, nominalValue, couponRate), and an optional
\* field is the empty string exactly when it is absent from the record; a
\* present value, the number 0 included, is rendered as its text.
C26_OptionalFieldEmptyOnlyWhenAbsent ==
    (IsExport /\ download # NoFile) =>
        LET lines == Split(download.content, Newline) IN
        /\ lines[1] = Join(input.headers, Comma)
        /\ Len(lines) = 1 + Len(input.data)
        /\ \A k \in 1..Len(input.data) :
               lines[k + 1] =
                   Join([i \in 1..Len(input.headers) |->
                            QuotedField(ClaimedCells(input.data[k])[i])], Comma)


\* ------------------------------------------------------------------------
\* The delimiter and the header line
\* ------------------------------------------------------------------------
\* C27: the delimiter csvToArray tokenizes a document with is the one
\* detectDelimiter returns for the line that is tokenized as the header,
\* also when blank lines or white space come before the header.
C27_DelimiterDetectedOnHeaderLine ==
    op = "csvToArray" =>
        LET lines == DocumentLines(csvContent) IN
        Len(lines) > 1 =>
            LET delimiter == detectDelimiter(lines[1]) IN
            result = RowsLoop(lines, parseCSVHeader(lines[1], delimiter), delimiter, 2)


\* ------------------------------------------------------------------------
\* The template documents
\* ------------------------------------------------------------------------
\* the template of the given kind was downloaded, read and parsed
TemplateParsed(file, parser) ==
    /\ op = parser
    /\ download = file
    /\ csvContent = file.content

\* C30: the text downloadExampleBankCSV produces from its seed rows parses
\* with parseBankCSV to 2 successes and 0 errors; the text
\* downloadExamplePositionCSV produces parses with parsePositionCSV to 3
\* successes (a stock, an ETF and a bond with nominalValue and couponRate)
\* and 0 errors.
C30_TemplatesParseCleanly ==
    /\ TemplateParsed(downloadExampleBankCSV.file, "parseBankCSV") =>
           /\ result.errors = <<>>
           /\ Len(result.success) = 2
    /\ TemplateParsed(downloadExamplePositionCSV.file, "parsePositionCSV") =>
           /\ result.errors = <<>>
           /\ Len(result.success) = 3
           /\ result.success[1].assetType = S_stock
           /\ result.success[2].assetType = S_etf
           /\ result.success[3].assetType = S_bond
           /\ result.success[3].nominalValue = Number(FALSE, 10000, 0)
           /\ result.success[3].couponRate = Number(FALSE, 4, 0)

\* the position template was downloaded, read back and parsed into three
\* records, the first bought at 185.5
C30_Witness ==
    /\ TemplateParsed(downloadExamplePositionCSV.file, "parsePositionCSV")
    /\ Len(result.allRows) = 3
    /\ result.success[1].purchasePrice = Number(FALSE, 1855, 1)


\* ------------------------------------------------------------------------
\* The commits of the import preview pages
\* ------------------------------------------------------------------------
\* C22: no record is written to or deleted from the store by a commit
\* (replace-all or append, for banks and for positions) while the staged
\* parse result has at least one error: a step of handleOverwrite or
\* handleAppend taken with errors staged leaves the store as it is.
C22_NoCommitWhileErrorsStaged ==
    [][(page'.handler # "none" /\ Len(page.previewData.errors) > 0) => db' = db]_vars

\* handleOverwrite of the bank preview page was called with an error staged
\* and banks stored, and returned
C22_Witness ==
    /\ page.handler = "banks.handleOverwrite"
    /\ page.outcome = "returned"
    /\ Len(page.previewData.errors) > 0
    /\ Len(page.previewData.success) > 0
    /\ db.banks # {}


\* a stored record without the id the store gave it, and the records of a
\* table in the order they were stored
WithoutId(record) == [f \in (DOMAIN record) \ {"id"} |-> record[f]]
ListOf(table) == [k \in 1..Cardinality(table) |-> WithoutId(ById(table)[k])]
PositionsOfBank(store, bankId) == {p \in store.positions : p.bankId = bankId}
PositionsOfOthers(store, bankId) == {p \in store.positions : p.bankId # bankId}

\* C25: when a commit of a zero-error staged result completes without a
\* store failure: after a position replace-all for bank B the stored
\* positions of B are exactly the success list and the positions of every
\* other bank are unchanged; after a position append the previously stored
\* positions are unchanged and the success records are added; after a bank
\* append the previously stored banks and all positions are unchanged.
C25_CommitFrame ==
    page.outcome = "completed" =>
        /\ page.handler = "positions.handleOverwrite" =>
               /\ ListOf(PositionsOfBank(db, page.bankId)) = page.previewData.success
               /\ PositionsOfOthers(db, page.bankId)
                      = PositionsOfOthers(page.before, page.bankId)
        /\ page.handler = "positions.handleAppend" =>
               /\ page.before.positions \subseteq db.positions
               /\ ListOf(db.positions \ page.before.positions) = page.previewData.success
        /\ page.handler = "banks.handleAppend" =>
               /\ page.before.banks \subseteq db.banks
               /\ ListOf(db.banks \ page.before.banks) = page.previewData.success
               /\ db.positions = page.before.positions


\* the store operations of the commit that was called last, all of them
OperationsOf(commit) ==
    IF commit.handler = "banks.handleOverwrite"
    THEN DeleteBanks(ById(commit.before.banks)) \o AddBanks(commit.previewData)
    ELSE IF commit.handler = "banks.handleAppend" THEN AddBanks(commit.previewData)
    ELSE IF commit.handler = "positions.handleOverwrite"
    THEN <<DeletePositionsOf(commit.bankId)>> \o AddPositions(commit.previewData)
    ELSE AddPositions(commit.previewData)

\* the store after all of the operations resolved
RECURSIVE ApplyAll(_, _)
ApplyAll(store, operations) ==
    IF operations = <<>> THEN store
    ELSE ApplyAll(Apply(store, Head(operations)), Tail(operations))

SameTables(a, b) == a.banks = b.banks /\ a.positions = b.positions

\* C28: an import commit is all-or-nothing: when a store operation has
\* failed part-way through handleOverwrite or handleAppend and the handler
\* has ended, the store holds either exactly the records it held before the
\* commit started or exactly the full result of the commit.
C28_CommitIsAllOrNothing ==
    page.outcome = "failed" =>
        \/ SameTables(db, page.before)
        \/ SameTables(db, ApplyAll(page.before, OperationsOf(page)))


\* C29: once a bank replace-all (handleOverwrite of the bank preview page)
\* has completed successfully, every stored position's bankId is the id of
\* a stored bank.
C29_NoOrphanAfterBankReplaceAll ==
    (page.outcome = "completed" /\ page.handler = "banks.handleOverwrite") =>
        \A p \in db.positions : p.bankId \in {b.id : b \in db.banks}

====
